---- MODULE Spec2Model ----
(***************************************************************************)
(* A model of the collection tools: the collectors (PTP, GPS-UBX, PMC) and *)
(* their Poll cycles, the persistent shell session with its command        *)
(* serializer, the per-call exec session with its pod-name refresh, the    *)
(* memoized fetchers of package devices, the selection of the collectors   *)
(* to run, and the lifecycle of the pod a context creates.                 *)
(*                                                                         *)
(* Each component has its own specification over the shared variables:     *)
(*   SpecCollector  Start / CleanUp / Poll of the PTP and PMC collectors   *)
(*   SpecGPS        Start / CleanUp / Poll of the GPS and PMC collectors   *)
(*   SpecControl    SpecGPS with Start / CleanUp of the PTP collector      *)
(*   SpecOverlap    polls of the PTP collector that overlap one another    *)
(*   FairSpecPolls  the polls of SpecCollector as scheduled goroutines     *)
(*   FairSpecRun    the run loop's shutdown around the PMC polls           *)
(*   SpecShell      ReusedConnectionContext: execCommand and serializer    *)
(*   FairSpecShell  SpecShell with the serializer goroutine scheduled      *)
(*   SpecExec       ContainerExecContext: execCommand, refresh, pod churn  *)
(*   SpecReused     NewReusedConnectionContext under pod churn             *)
(*   SpecFetcher    the memoized fetchers of package devices and Fetch     *)
(*   SpecPTPDev     the PTP collector that keeps its data in a map         *)
(*   SpecSelector   GetCollectorsToRun over the bounded requests           *)
(*   SpecLifecycle  CreatePodAndWait and DeletePodAndWait of one context   *)
(***************************************************************************)
EXTENDS Integers, Sequences, FiniteSets, TLC

(***************************************************************************)
(* Bounds of the model.                                                    *)
(***************************************************************************)
\* polls dispatched in one behaviour, over all collectors
MaxPolls == 2
\* capacity of the results channel the polls send on
ChanCap == 1
\* callers of execCommand on the persistent session, one command each
MaxCmds == 3
\* per-call exec calls in one behaviour
MaxCalls == 2
\* calls of GetPTPDeviceInfo, GetDevDPLLInfo and ReadGNSSDev in one behaviour
MaxFetchCalls == 2
\* names in one selection request
MaxRequest == 3
\* calls of CreatePodAndWait and DeletePodAndWait in one behaviour
MaxLifeCalls == 3

(***************************************************************************)
(* Program constants of the collectors.                                    *)
(***************************************************************************)
PTPCollectorName == "PTP"
GPSCollectorName == "GPS-UBX"
PMCCollectorName == "PMC"
DeviceInfo == "device-info"
DPLLInfo == "dpll-info"
GNSSDev == "gnss-dev"
All == "all"
GPSNavKey == "gpsNav"
PMCInfo == "pmc-info"

\* ptpCollectables: GNSSDev is commented out of the array
ptpCollectables == <<DeviceInfo, DPLLInfo>>
ubxCollectables == <<GPSNavKey>>

\* the keys a caller passes to Start and CleanUp
KeyInputs == {DeviceInfo, DPLLInfo, GNSSDev, All, GPSNavKey}

Range(s) == {s[i] : i \in 1..Len(s)}
EmptyMap == [k \in {} |-> TRUE]

VARIABLES
    \* ---- PTPCollector
    ptpRunning,     \* running map[string]bool
    ptpData,        \* data map[string]interface{}: key -> TRUE (a value is stored)
    ptpCount,       \* count int32
    ptpLock,        \* lock sync.Mutex: the poll holding it, 0 when free
    ptpWg,          \* runningPolls utils.WaitGroupCount
    \* ---- GPSCollector
    gpsRunning,     \* running bool
    gpsCount,       \* count int32
    gpsWg,          \* runningPolls utils.WaitGroupCount
    \* ---- PMCCollector
    pmcWg,          \* the wg *utils.WaitGroupCount handed to Poll
    \* ---- shared by the collectors
    polls,          \* the Poll calls: poll id -> its frame (locals and position)
    resultsChan,    \* resultsChan chan PollResult
    received,       \* the polls whose PollResult the aggregator has taken off the channel
    ret,            \* the last Start / CleanUp call: whether it returned an error (err),
                    \* and whether its key was "all" or one of the collector's keys (known)
    ptpReplay,      \* the Start/CleanUp transitions replayed over the PTP keys
    gpsReplay       \* the Start/CleanUp transitions replayed over the GPS keys

collectorVars == <<ptpRunning, ptpData, ptpCount, ptpLock, ptpWg, gpsRunning, gpsCount,
                   gpsWg, pmcWg, polls, resultsChan, received, ret, ptpReplay, gpsReplay>>

VARIABLES
    \* ---- ReusedConnectionContext
    commandChannel, \* commandChannel chan *command
    commandQuit,    \* commandQuit chan os.Signal: the signals it holds
    resChan,        \* the resChan of each execCommand call: call -> the results it holds
    serializer,     \* the command serializer goroutine: position, the cmd at hand, Expect's error
    pump,           \* the stream pump goroutine: "running" or "ended"
    shellWg,        \* wg *utils.WaitGroupCount
    closer,         \* the CloseShell call: "idle", "wait" (in wg.Wait) or "returned"
    callers,        \* the execCommand calls: position and entry point
    submitted,      \* the commands in the order they entered commandChannel
    written,        \* what the serializer wrote to the shell, in order
    delivered       \* the results the serializer sent, in order: the command and the channel

shellVars == <<commandChannel, commandQuit, resChan, serializer, pump, shellWg, closer,
               callers, submitted, written, delivered>>

VARIABLES
    \* ---- ContainerExecContext
    podList,        \* the names of the pods listed in the namespace, in listing order
    ctx,            \* the ContainerExecContext: namespace, podName, containerName, podNamePrefix
    call,           \* the execCommand call in progress: position, request target, streams, err
    prev,           \* the last call that returned: its target, streams, error, the name after it
    calls,          \* the number of execCommand calls begun
    made            \* the last NewContainerContext call: the listing, its arguments, its error

execVars == <<podList, ctx, call, prev, calls, made>>

VARIABLES
    \* ---- the fetchers of package devices
    fetcherMaps,    \* devFetcher, gnssFetcher, dpllFetcher: each a map key -> fetcher
    fetcherMutex,   \* fetcherMutex sync.Mutex: the worker holding it, 0 when free
    fetchers,       \* the Fetcher instances created so far, in order of creation
    workers,        \* the collector workers: position and locals of the call at hand
    fetchCalls      \* the number of calls begun

fetcherVars == <<fetcherMaps, fetcherMutex, fetchers, workers, fetchCalls>>

VARIABLES
    \* ---- the selection of the collectors to run
    selection       \* the last call of GetCollectorsToRun: its argument and result

VARIABLES
    \* ---- ContainerCreationExecContext: the pod's lifecycle
    clusterPod,     \* the cluster's pod of name c.podName: its phase, being deleted
    cpod,           \* c.pod: the pod object the context holds
    life,           \* the call of CreatePodAndWait or DeletePodAndWait in progress
    lifeCalls       \* the number of calls begun

lifecycleVars == <<clusterPod, cpod, life, lifeCalls>>

VARIABLES
    \* ---- the run loop
    runLoop         \* its position: "ticking" until the duration is over, then the
                    \* steps of the shutdown: "wait", "close", "sessions", "end"

VARIABLES
    \* ---- the PTP collector of package collectors that keeps its data in a map
    ptpDev          \* the keys of its data and running maps, and the last call's return

\* the state of the components specified further down
moreVars == <<fetcherVars, selection, lifecycleVars, runLoop, ptpDev>>

\* the state of the collectors and the two sessions
baseVars == <<collectorVars, shellVars, execVars>>

vars == <<collectorVars, shellVars, execVars, moreVars>>

PollIds == 1..MaxPolls
CmdIds == 1..MaxCmds

\* The frame of a Poll call.  Its locals: pc, the range's state (live, old, must,
\* visited), cur (the key at hand) and errs (errorsToReturn).  What the frame
\* records of the cycle: wasRunning (the keys found running), fetched and called
\* (the keys fetched and passed to the sink), out (each key's outcome), sent (the
\* PollResults sent), through (the keys running since the poll began) and ahead
\* (the polls that held a fetched payload of the key at hand, not yet passed to
\* the sink, when this poll fetched its own).
\* NoPoll is a Poll call that was not dispatched yet.
NoPoll == [coll |-> "none", pc |-> "idle", live |-> TRUE, old |-> EmptyMap, must |-> {},
           visited |-> {}, wasRunning |-> {}, cur |-> "", errs |-> <<>>,
           out |-> EmptyMap, fetched |-> {}, called |-> {}, sent |-> 0, through |-> {},
           ahead |-> {}]

MapSet(m, k, v) == [x \in DOMAIN m \cup {k} |-> IF x = k THEN v ELSE m[x]]
MapDel(m, k) == [x \in DOMAIN m \ {k} |-> m[x]]
\* the keys a running map holds as true
RunningKeys(m) == {k \in DOMAIN m : m[k]}

\* NewPTPCollector / NewGPSCollector: the collectors as constructed
InitCollector ==
    /\ ptpRunning = EmptyMap
    /\ ptpData = [k \in {DeviceInfo, DPLLInfo} |-> TRUE]
    /\ ptpCount = 0
    /\ ptpLock = 0
    /\ ptpWg = 0
    /\ gpsRunning = FALSE
    /\ gpsCount = 0
    /\ gpsWg = 0
    /\ pmcWg = 0
    /\ polls = [p \in PollIds |-> NoPoll]
    /\ resultsChan = <<>>
    /\ received = {}
    /\ ret = [known |-> TRUE, err |-> FALSE]
    /\ ptpReplay = {}
    /\ gpsReplay = {}

(***************************************************************************)
(* The replay of a Start / CleanUp call over a collector's keys.           *)
(***************************************************************************)
\* the key is "all" or one of the collectable keys
Known(key, collectables) == key = All \/ key \in Range(collectables)

ReplayStart(S, key, keys) ==
    IF key = All THEN S \cup keys ELSE IF key \in keys THEN S \cup {key} ELSE S
ReplayCleanUp(S, key, keys) ==
    IF key = All THEN {} ELSE IF key \in keys THEN S \ {key} ELSE S

(***************************************************************************)
(* PTPCollector: Start and CleanUp.                                        *)
(***************************************************************************)
\* mutant: the check of the key against DataTypes is lost
PTPCollector_getErrorIfNotCollectable_Never(key) == FALSE

\* TRUE when the call returns getNotCollectableError(key)
PTPCollector_getErrorIfNotCollectable(key) ==
    ~ \E i \in 1..Len(ptpCollectables) : ptpCollectables[i] = key

\* the polls that are ranging over the live running map
RangingLive(p) ==
    /\ polls[p].coll = PTPCollectorName
    /\ polls[p].pc \in {"range", "lock", "fetch", "call"}
    /\ polls[p].live

\* mutant: the array ranged over still lists GNSSDev
StartAll_WithGNSSDev(m) ==
    [k \in DOMAIN m \cup Range(ptpCollectables) \cup {GNSSDev} |->
        IF k \in Range(ptpCollectables) \cup {GNSSDev} THEN TRUE ELSE m[k]]

\* mutant: the loop over DataTypes stops after the first dataType
StartAll_FirstOnly(m) == [k \in DOMAIN m \cup {ptpCollectables[1]} |->
                            IF k = ptpCollectables[1] THEN TRUE ELSE m[k]]

\* case All of Start: running[dataType] = true for every dataType
StartAll(m) == [k \in DOMAIN m \cup Range(ptpCollectables) |->
                   IF k \in Range(ptpCollectables) THEN TRUE ELSE m[k]]

PTPCollector_Start(key) ==
    /\ IF key = All
       THEN /\ ptpRunning' = StartAll(ptpRunning)
            /\ ret' = [known |-> Known(key, ptpCollectables), err |-> FALSE]
       ELSE IF PTPCollector_getErrorIfNotCollectable(key)
       THEN /\ ptpRunning' = ptpRunning
            /\ ret' = [known |-> Known(key, ptpCollectables), err |-> TRUE]
       ELSE /\ ptpRunning' = MapSet(ptpRunning, key, TRUE)
            /\ ret' = [known |-> Known(key, ptpCollectables), err |-> FALSE]
    /\ ptpReplay' = ReplayStart(ptpReplay, key, Range(ptpCollectables))
    /\ UNCHANGED <<ptpData, ptpCount, ptpLock, ptpWg, gpsRunning, gpsCount, gpsWg, pmcWg,
                   polls, resultsChan, received, gpsReplay>>
    /\ UNCHANGED <<shellVars, execVars, moreVars>>

PTPCollector_CleanUp(key) ==
    /\ IF key = All
       THEN \* running = make(map[string]bool): a range in progress keeps the old map
            /\ ptpRunning' = EmptyMap
            /\ polls' = [p \in PollIds |->
                            IF RangingLive(p)
                            THEN [polls[p] EXCEPT !.live = FALSE,
                                                  !.old = [k \in DOMAIN ptpRunning \ polls[p].visited |->
                                                             ptpRunning[k]],
                                                  !.through = {}]
                            ELSE [polls[p] EXCEPT !.through = {}]]
            /\ ret' = [known |-> Known(key, ptpCollectables), err |-> FALSE]
       ELSE IF PTPCollector_getErrorIfNotCollectable(key)
       THEN /\ UNCHANGED <<ptpRunning, polls>>
            /\ ret' = [known |-> Known(key, ptpCollectables), err |-> TRUE]
       ELSE \* delete(running, key): an entry not yet reached by a range is not produced
            /\ ptpRunning' = MapDel(ptpRunning, key)
            /\ polls' = [p \in PollIds |->
                            IF RangingLive(p)
                            THEN [polls[p] EXCEPT !.must = @ \ {key}, !.through = @ \ {key}]
                            ELSE [polls[p] EXCEPT !.through = @ \ {key}]]
            /\ ret' = [known |-> Known(key, ptpCollectables), err |-> FALSE]
    /\ ptpReplay' = ReplayCleanUp(ptpReplay, key, Range(ptpCollectables))
    /\ UNCHANGED <<ptpData, ptpCount, ptpLock, ptpWg, gpsRunning, gpsCount, gpsWg, pmcWg,
                   resultsChan, received, gpsReplay>>
    /\ UNCHANGED <<shellVars, execVars, moreVars>>

(***************************************************************************)
(* GPSCollector: Start and CleanUp.                                        *)
(***************************************************************************)
GPSCollector_Start(key) ==
    /\ IF key \in {All, GPSNavKey}
       THEN /\ gpsRunning' = TRUE
            /\ ret' = [known |-> Known(key, ubxCollectables), err |-> FALSE]
       ELSE /\ gpsRunning' = gpsRunning
            /\ ret' = [known |-> Known(key, ubxCollectables), err |-> TRUE]
    /\ gpsReplay' = ReplayStart(gpsReplay, key, Range(ubxCollectables))
    /\ UNCHANGED <<ptpRunning, ptpData, ptpCount, ptpLock, ptpWg, gpsCount, gpsWg, pmcWg,
                   polls, resultsChan, received, ptpReplay>>
    /\ UNCHANGED <<shellVars, execVars, moreVars>>

GPSCollector_CleanUp(key) ==
    /\ IF key \in {All, GPSNavKey}
       THEN /\ gpsRunning' = FALSE
            /\ ret' = [known |-> Known(key, ubxCollectables), err |-> FALSE]
       ELSE /\ gpsRunning' = gpsRunning
            /\ ret' = [known |-> Known(key, ubxCollectables), err |-> TRUE]
    /\ gpsReplay' = ReplayCleanUp(gpsReplay, key, Range(ubxCollectables))
    /\ UNCHANGED <<ptpRunning, ptpData, ptpCount, ptpLock, ptpWg, gpsCount, gpsWg, pmcWg,
                   polls, resultsChan, received, ptpReplay>>
    /\ UNCHANGED <<shellVars, execVars, moreVars>>

(***************************************************************************)
(* Poll calls.  A Poll call is a task of its own: it takes the lowest free *)
(* frame and runs step by step, interleaved with Start, CleanUp and the    *)
(* other polls.                                                            *)
(***************************************************************************)
FreeFrame(p) ==
    /\ polls[p].pc = "idle"
    /\ \A q \in PollIds : q < p => polls[q].pc # "idle"

\* the map a poll's range statement iterates: the live one, or the one that
\* CleanUp(All) replaced while the range was in progress
IterMap(p) == IF polls[p].live THEN ptpRunning ELSE polls[p].old

\* the frame of a Poll call that returned: its locals are gone
Returned(p) == [NoPoll EXCEPT !.coll = polls[p].coll, !.pc = "end", !.sent = polls[p].sent]

\* resultsChan <- PollResult{...}: blocks while the channel is full; a send on
\* the channel once it is closed panics
SendResult(p, name) ==
    IF runLoop \in {"sessions", "end"}
    THEN /\ polls' = [polls EXCEPT ![p].pc = "panic"]
         /\ UNCHANGED resultsChan
    ELSE /\ Len(resultsChan) < ChanCap
         /\ resultsChan' = Append(resultsChan, [CollectorName |-> name, Errors |-> polls[p].errs,
                                             poll |-> p])
         /\ polls' = [polls EXCEPT ![p].pc = "done", ![p].sent = @ + 1]

(***************************************************************************)
(* PTPCollector.Poll                                                       *)
(***************************************************************************)
\* runningPolls.Add(1); errorsToReturn := make([]error, 0); the range begins
PTPCollector_Poll(p) ==
    /\ FreeFrame(p)
    /\ ptpWg' = ptpWg + 1
    /\ polls' = [polls EXCEPT ![p] = [NoPoll EXCEPT !.coll = PTPCollectorName,
                                                    !.pc = "range",
                                                    !.must = DOMAIN ptpRunning,
                                                    !.through = RunningKeys(ptpRunning)]]
    /\ UNCHANGED <<ptpRunning, ptpData, ptpCount, ptpLock, gpsRunning, gpsCount, gpsWg,
                   pmcWg, resultsChan, received, ret, ptpReplay, gpsReplay>>
    /\ UNCHANGED <<shellVars, execVars, moreVars>>

\* for key, isRunning := range running { if isRunning { ...
PTPCollector_Poll_range(p) ==
    /\ polls[p].coll = PTPCollectorName
    /\ polls[p].pc = "range"
    /\ \E key \in DOMAIN IterMap(p) \ polls[p].visited :
          polls' = [polls EXCEPT ![p] =
                      IF IterMap(p)[key]
                      THEN [@ EXCEPT !.visited = @ \cup {key},
                                     !.must = @ \ {key},
                                     !.old = MapDel(@, key),
                                     !.wasRunning = @ \cup {key},
                                     !.cur = key,
                                     !.pc = "lock"]
                      ELSE [@ EXCEPT !.visited = @ \cup {key},
                                     !.must = @ \ {key},
                                     !.old = MapDel(@, key)]]
    /\ UNCHANGED <<ptpRunning, ptpData, ptpCount, ptpLock, ptpWg, gpsRunning, gpsCount,
                   gpsWg, pmcWg, resultsChan, received, ret, ptpReplay, gpsReplay>>
    /\ UNCHANGED <<shellVars, execVars, moreVars>>

\* mutant: fetchLine goes on without waiting for the lock
PTPCollector_fetchLine_lock_NoWait(p) ==
    /\ polls[p].coll = PTPCollectorName
    /\ polls[p].pc = "lock"
    /\ ptpLock' = p
    /\ polls' = [polls EXCEPT ![p].pc = "fetch", ![p].fetched = @ \cup {polls[p].cur}]
    /\ UNCHANGED <<ptpRunning, ptpData, ptpCount, ptpWg, gpsRunning, gpsCount, gpsWg,
                   pmcWg, resultsChan, received, ret, ptpReplay, gpsReplay>>
    /\ UNCHANGED <<shellVars, execVars, moreVars>>

\* fetchLine: lock.Lock()
PTPCollector_fetchLine_lock(p) ==
    /\ polls[p].coll = PTPCollectorName
    /\ polls[p].pc = "lock"
    /\ ptpLock = 0
    /\ ptpLock' = p
    /\ polls' = [polls EXCEPT ![p].pc = "fetch", ![p].fetched = @ \cup {polls[p].cur}]
    /\ UNCHANGED <<ptpRunning, ptpData, ptpCount, ptpWg, gpsRunning, gpsCount, gpsWg,
                   pmcWg, resultsChan, received, ret, ptpReplay, gpsReplay>>
    /\ UNCHANGED <<shellVars, execVars, moreVars>>

\* the outcomes of a key's fetch and of the marshalling of what it fetched
FetchOutcomes == {"ok", "fetchErr", "marshalErr"}

\* fetchLine's switch: what it returns and the data map it leaves, for a key and
\* the outcome o of the remote fetch and of json.Marshal
fetchLine(key, o) ==
    IF key \in {DeviceInfo, DPLLInfo}
    THEN IF o = "fetchErr"
         THEN [err |-> "fetchErr", data |-> ptpData]
         ELSE [err |-> IF o = "marshalErr" THEN "marshalErr" ELSE "",
               data |-> MapSet(ptpData, key, TRUE)]
    ELSE IF key = GNSSDev
    THEN IF DeviceInfo \notin DOMAIN ptpData
         THEN [err |-> "unpackErr", data |-> ptpData]
         ELSE IF o = "fetchErr"
         THEN [err |-> "fetchErr", data |-> ptpData]
         ELSE [err |-> IF o = "marshalErr" THEN "marshalErr" ELSE "",
               data |-> MapSet(ptpData, key, TRUE)]
    ELSE [err |-> "notCollectable", data |-> ptpData]

\* the polls that hold the line fetchLine(key) returned to them and have not
\* passed it to the callback yet
HoldingPayload(key) ==
    {q \in PollIds : /\ polls[q].coll = PTPCollectorName
                     /\ polls[q].pc = "call"
                     /\ polls[q].cur = key}

\* mutant: a failed fetchLine ends the range, as a return of the error would
PTPCollector_Poll_fetchLine_Abort(p) ==
    /\ polls[p].coll = PTPCollectorName
    /\ polls[p].pc = "fetch"
    /\ ptpLock = p
    /\ \E o \in FetchOutcomes :
          LET key == polls[p].cur
              r == fetchLine(key, o)
          IN /\ ptpData' = r.data
             /\ polls' = [polls EXCEPT ![p] =
                            IF r.err # ""
                            THEN [@ EXCEPT !.errs = Append(@, key),
                                           !.out = MapSet(@, key, "fail"),
                                           !.must = {},
                                           !.live = FALSE,
                                           !.old = EmptyMap,
                                           !.ahead = {},
                                           !.pc = "range"]
                            ELSE [@ EXCEPT !.ahead = HoldingPayload(key),
                                           !.pc = "call"]]
    /\ ptpLock' = 0
    /\ UNCHANGED <<ptpRunning, ptpCount, ptpWg, gpsRunning, gpsCount, gpsWg, pmcWg,
                   resultsChan, received, ret, ptpReplay, gpsReplay>>
    /\ UNCHANGED <<shellVars, execVars, moreVars>>

\* line, err := fetchLine(key); if err != nil { errorsToReturn = append(...) }
PTPCollector_Poll_fetchLine(p) ==
    /\ polls[p].coll = PTPCollectorName
    /\ polls[p].pc = "fetch"
    /\ ptpLock = p
    /\ \E o \in FetchOutcomes :
          LET key == polls[p].cur
              r == fetchLine(key, o)
          IN /\ ptpData' = r.data
             /\ polls' = [polls EXCEPT ![p] =
                            IF r.err # ""
                            THEN [@ EXCEPT !.errs = Append(@, key),
                                           !.out = MapSet(@, key, "fail"),
                                           !.ahead = {},
                                           !.pc = "range"]
                            ELSE [@ EXCEPT !.ahead = HoldingPayload(key),
                                           !.pc = "call"]]
    /\ ptpLock' = 0
    /\ UNCHANGED <<ptpRunning, ptpCount, ptpWg, gpsRunning, gpsCount, gpsWg, pmcWg,
                   resultsChan, received, ret, ptpReplay, gpsReplay>>
    /\ UNCHANGED <<shellVars, execVars, moreVars>>

\* err = callback.Call(fmt.Sprintf("%T", ptpDev), key, string(line))
PTPCollector_Poll_call(p) ==
    /\ polls[p].coll = PTPCollectorName
    /\ polls[p].pc = "call"
    /\ \E o \in {"ok", "sinkErr"} :
          LET key == polls[p].cur
          IN polls' = [polls EXCEPT ![p] =
                         [@ EXCEPT !.called = @ \cup {key},
                                   !.out = MapSet(@, key, IF o = "ok" THEN "ok" ELSE "fail"),
                                   !.errs = IF o = "ok" THEN @ ELSE Append(@, key),
                                   !.pc = "range"]]
    /\ UNCHANGED <<ptpRunning, ptpData, ptpCount, ptpLock, ptpWg, gpsRunning, gpsCount,
                   gpsWg, pmcWg, resultsChan, received, ret, ptpReplay, gpsReplay>>
    /\ UNCHANGED <<shellVars, execVars, moreVars>>

\* the range is over: atomic.AddInt32(&count, 1)
PTPCollector_Poll_count(p) ==
    /\ polls[p].coll = PTPCollectorName
    /\ polls[p].pc = "range"
    /\ polls[p].must = {}
    /\ ptpCount' = ptpCount + 1
    /\ polls' = [polls EXCEPT ![p].pc = "send", ![p].cur = "", ![p].visited = {},
                              ![p].live = TRUE, ![p].old = EmptyMap]
    /\ UNCHANGED <<ptpRunning, ptpData, ptpLock, ptpWg, gpsRunning, gpsCount, gpsWg,
                   pmcWg, resultsChan, received, ret, ptpReplay, gpsReplay>>
    /\ UNCHANGED <<shellVars, execVars, moreVars>>

\* resultsChan <- PollResult{CollectorName: PTPCollectorName, Errors: errorsToReturn}
PTPCollector_Poll_send(p) ==
    /\ polls[p].coll = PTPCollectorName
    /\ polls[p].pc = "send"
    /\ SendResult(p, PTPCollectorName)
    /\ UNCHANGED <<ptpRunning, ptpData, ptpCount, ptpLock, ptpWg, gpsRunning, gpsCount,
                   gpsWg, pmcWg, received, ret, ptpReplay, gpsReplay>>
    /\ UNCHANGED <<shellVars, execVars, moreVars>>

\* defer runningPolls.Done()
PTPCollector_Poll_done(p) ==
    /\ polls[p].coll = PTPCollectorName
    /\ polls[p].pc = "done"
    /\ ptpWg' = ptpWg - 1
    /\ polls' = [polls EXCEPT ![p] = Returned(p)]
    /\ UNCHANGED <<ptpRunning, ptpData, ptpCount, ptpLock, gpsRunning, gpsCount, gpsWg,
                   pmcWg, resultsChan, received, ret, ptpReplay, gpsReplay>>
    /\ UNCHANGED <<shellVars, execVars, moreVars>>

(***************************************************************************)
(* GPSCollector.Poll                                                       *)
(***************************************************************************)
\* runningPolls.Add(1).  The frame notes whether the key was running when the
\* poll began; Poll itself never reads gps.running.
GPSCollector_Poll(p) ==
    /\ FreeFrame(p)
    /\ gpsWg' = gpsWg + 1
    /\ polls' = [polls EXCEPT ![p] =
                    [NoPoll EXCEPT !.coll = GPSCollectorName,
                                   !.pc = "fetch",
                                   !.cur = GPSNavKey,
                                   !.wasRunning = IF gpsRunning THEN {GPSNavKey} ELSE {}]]
    /\ UNCHANGED <<ptpRunning, ptpData, ptpCount, ptpLock, ptpWg, gpsRunning, gpsCount,
                   pmcWg, resultsChan, received, ret, ptpReplay, gpsReplay>>
    /\ UNCHANGED <<shellVars, execVars, moreVars>>

\* mutant: the error of GetGPSNav is recorded and the poll goes on to the sink
GPSCollector_Poll_fetch_GoesOn(p) ==
    /\ polls[p].coll = GPSCollectorName
    /\ polls[p].pc = "fetch"
    /\ \E o \in FetchOutcomes \cup {"parseErr"} :
          polls' = [polls EXCEPT ![p] =
                      IF o # "ok"
                      THEN [@ EXCEPT !.fetched = @ \cup {GPSNavKey},
                                     !.errs = <<GPSNavKey>>,
                                     !.out = MapSet(@, GPSNavKey, "fail"),
                                     !.pc = "call"]
                      ELSE [@ EXCEPT !.fetched = @ \cup {GPSNavKey},
                                     !.pc = "call"]]
    /\ UNCHANGED <<ptpRunning, ptpData, ptpCount, ptpLock, ptpWg, gpsRunning, gpsCount,
                   gpsWg, pmcWg, resultsChan, received, ret, ptpReplay, gpsReplay>>
    /\ UNCHANGED <<shellVars, execVars, moreVars>>

\* gpsNav, err := devices.GetGPSNav(ctx); line, err := json.Marshal(gpsNav).
\* GetGPSNav fails when gpsFetcher.Fetch does: on its command, or on the
\* post-processing hook processUBX that does not match the captured output.
GPSCollector_Poll_fetch(p) ==
    /\ polls[p].coll = GPSCollectorName
    /\ polls[p].pc = "fetch"
    /\ \E o \in FetchOutcomes \cup {"parseErr"} :
          polls' = [polls EXCEPT ![p] =
                      IF o # "ok"
                      THEN [@ EXCEPT !.fetched = @ \cup {GPSNavKey},
                                     !.errs = <<GPSNavKey>>,
                                     !.out = MapSet(@, GPSNavKey, "fail"),
                                     !.pc = "send"]
                      ELSE [@ EXCEPT !.fetched = @ \cup {GPSNavKey},
                                     !.pc = "call"]]
    /\ UNCHANGED <<ptpRunning, ptpData, ptpCount, ptpLock, ptpWg, gpsRunning, gpsCount,
                   gpsWg, pmcWg, resultsChan, received, ret, ptpReplay, gpsReplay>>
    /\ UNCHANGED <<shellVars, execVars, moreVars>>

\* err = callback.Call(...); on success atomic.AddInt32(&count, 1)
GPSCollector_Poll_call(p) ==
    /\ polls[p].coll = GPSCollectorName
    /\ polls[p].pc = "call"
    /\ \E o \in {"ok", "sinkErr"} :
          /\ polls' = [polls EXCEPT ![p] =
                         [@ EXCEPT !.called = @ \cup {GPSNavKey},
                                   !.out = MapSet(@, GPSNavKey, IF o = "ok" THEN "ok" ELSE "fail"),
                                   !.errs = IF o = "ok" THEN <<>> ELSE <<GPSNavKey>>,
                                   !.pc = "send"]]
          /\ gpsCount' = IF o = "ok" THEN gpsCount + 1 ELSE gpsCount
    /\ UNCHANGED <<ptpRunning, ptpData, ptpCount, ptpLock, ptpWg, gpsRunning, gpsWg,
                   pmcWg, resultsChan, received, ret, ptpReplay, gpsReplay>>
    /\ UNCHANGED <<shellVars, execVars, moreVars>>

\* resultsChan <- PollResult{CollectorName: GPSCollectorName, Errors: ...}
GPSCollector_Poll_send(p) ==
    /\ polls[p].coll = GPSCollectorName
    /\ polls[p].pc = "send"
    /\ SendResult(p, GPSCollectorName)
    /\ UNCHANGED <<ptpRunning, ptpData, ptpCount, ptpLock, ptpWg, gpsRunning, gpsCount,
                   gpsWg, pmcWg, received, ret, ptpReplay, gpsReplay>>
    /\ UNCHANGED <<shellVars, execVars, moreVars>>

\* defer gps.runningPolls.Done()
GPSCollector_Poll_done(p) ==
    /\ polls[p].coll = GPSCollectorName
    /\ polls[p].pc = "done"
    /\ gpsWg' = gpsWg - 1
    /\ polls' = [polls EXCEPT ![p] = Returned(p)]
    /\ UNCHANGED <<ptpRunning, ptpData, ptpCount, ptpLock, ptpWg, gpsRunning, gpsCount,
                   pmcWg, resultsChan, received, ret, ptpReplay, gpsReplay>>
    /\ UNCHANGED <<shellVars, execVars, moreVars>>

(***************************************************************************)
(* PMCCollector.Poll                                                       *)
(***************************************************************************)
\* the run loop dispatches the poll: wg.Add(1); go collector.Poll(resultsChan, wg)
PMCCollector_dispatch(p) ==
    /\ FreeFrame(p)
    /\ pmcWg' = pmcWg + 1
    /\ polls' = [polls EXCEPT ![p] = [NoPoll EXCEPT !.coll = PMCCollectorName,
                                                    !.pc = "poll",
                                                    !.cur = PMCInfo,
                                                    !.wasRunning = {PMCInfo}]]
    /\ UNCHANGED <<ptpRunning, ptpData, ptpCount, ptpLock, ptpWg, gpsRunning, gpsCount,
                   gpsWg, resultsChan, received, ret, ptpReplay, gpsReplay>>
    /\ UNCHANGED <<shellVars, execVars, moreVars>>

\* mutant: the completion is signalled before the result is sent
PMCCollector_Poll_DoneFirst(p) ==
    /\ polls[p].coll = PMCCollectorName
    /\ polls[p].pc = "poll"
    /\ pmcWg' = pmcWg - 1
    /\ \E o \in {"ok", "fetchErr", "sinkErr"} :
          polls' = [polls EXCEPT ![p] =
                      [@ EXCEPT !.fetched = {PMCInfo},
                                !.called = IF o = "fetchErr" THEN {} ELSE {PMCInfo},
                                !.out = MapSet(@, PMCInfo, IF o = "ok" THEN "ok" ELSE "fail"),
                                !.errs = IF o = "ok" THEN <<>> ELSE <<PMCInfo>>,
                                !.pc = "send"]]
    /\ UNCHANGED <<ptpRunning, ptpData, ptpCount, ptpLock, ptpWg, gpsRunning, gpsCount,
                   gpsWg, resultsChan, received, ret, ptpReplay, gpsReplay>>
    /\ UNCHANGED <<shellVars, execVars, moreVars>>

\* errorsToReturn := make([]error, 0); err := pmc.poll(); if err != nil { append }
PMCCollector_Poll(p) ==
    /\ polls[p].coll = PMCCollectorName
    /\ polls[p].pc = "poll"
    /\ \E o \in {"ok", "fetchErr", "sinkErr"} :
          polls' = [polls EXCEPT ![p] =
                      [@ EXCEPT !.fetched = {PMCInfo},
                                !.called = IF o = "fetchErr" THEN {} ELSE {PMCInfo},
                                !.out = MapSet(@, PMCInfo, IF o = "ok" THEN "ok" ELSE "fail"),
                                !.errs = IF o = "ok" THEN <<>> ELSE <<PMCInfo>>,
                                !.pc = "send"]]
    /\ UNCHANGED <<ptpRunning, ptpData, ptpCount, ptpLock, ptpWg, gpsRunning, gpsCount,
                   gpsWg, pmcWg, resultsChan, received, ret, ptpReplay, gpsReplay>>
    /\ UNCHANGED <<shellVars, execVars, moreVars>>

\* resultsChan <- collectorsBase.PollResult{CollectorName: PMCCollectorName, ...}
PMCCollector_Poll_send(p) ==
    /\ polls[p].coll = PMCCollectorName
    /\ polls[p].pc = "send"
    /\ SendResult(p, PMCCollectorName)
    /\ UNCHANGED <<ptpRunning, ptpData, ptpCount, ptpLock, ptpWg, gpsRunning, gpsCount,
                   gpsWg, pmcWg, received, ret, ptpReplay, gpsReplay>>
    /\ UNCHANGED <<shellVars, execVars, moreVars>>

\* mutant: the completion is never signalled
PMCCollector_Poll_done_NoSignal(p) ==
    /\ polls[p].coll = PMCCollectorName
    /\ polls[p].pc = "done"
    /\ polls' = [polls EXCEPT ![p] = Returned(p)]
    /\ UNCHANGED <<ptpRunning, ptpData, ptpCount, ptpLock, ptpWg, gpsRunning, gpsCount,
                   gpsWg, pmcWg, resultsChan, received, ret, ptpReplay, gpsReplay>>
    /\ UNCHANGED <<shellVars, execVars, moreVars>>

\* defer func() { wg.Done() }()
PMCCollector_Poll_done(p) ==
    /\ polls[p].coll = PMCCollectorName
    /\ polls[p].pc = "done"
    /\ pmcWg' = pmcWg - 1
    /\ polls' = [polls EXCEPT ![p] = Returned(p)]
    /\ UNCHANGED <<ptpRunning, ptpData, ptpCount, ptpLock, ptpWg, gpsRunning, gpsCount,
                   gpsWg, resultsChan, received, ret, ptpReplay, gpsReplay>>
    /\ UNCHANGED <<shellVars, execVars, moreVars>>

(***************************************************************************)
(* The aggregation task: it drains the results channel.                    *)
(***************************************************************************)
Aggregate ==
    /\ resultsChan # <<>>
    /\ received' = received \cup {Head(resultsChan).poll}
    /\ resultsChan' = Tail(resultsChan)
    /\ UNCHANGED <<ptpRunning, ptpData, ptpCount, ptpLock, ptpWg, gpsRunning, gpsCount,
                   gpsWg, pmcWg, polls, ret, ptpReplay, gpsReplay>>
    /\ UNCHANGED <<shellVars, execVars, moreVars>>

\* no poll of the collector is in flight
Idle(name) == \A q \in PollIds : polls[q].coll = name => polls[q].pc = "end"

\* Each collector ticks on its own interval, and in these specifications a
\* collector's interval is longer than one of its polls: polls of different
\* collectors overlap, two polls of one collector do not.

\* the polls of the PTP and PMC collectors, and the aggregation task
PollSteps ==
    \/ \E p \in PollIds : Idle(PTPCollectorName) /\ PTPCollector_Poll(p)
    \/ \E p \in PollIds : PTPCollector_Poll_range(p)
    \/ \E p \in PollIds : PTPCollector_fetchLine_lock(p)
    \/ \E p \in PollIds : PTPCollector_Poll_fetchLine(p)
    \/ \E p \in PollIds : PTPCollector_Poll_call(p)
    \/ \E p \in PollIds : PTPCollector_Poll_count(p)
    \/ \E p \in PollIds : PTPCollector_Poll_send(p)
    \/ \E p \in PollIds : PTPCollector_Poll_done(p)
    \/ \E p \in PollIds : Idle(PMCCollectorName) /\ PMCCollector_dispatch(p)
    \/ \E p \in PollIds : PMCCollector_Poll(p)
    \/ \E p \in PollIds : PMCCollector_Poll_send(p)
    \/ \E p \in PollIds : PMCCollector_Poll_done(p)
    \/ Aggregate

\* The PTP collector, its keys started and cleaned up while it polls, beside the
\* PMC collector.
NextCollector ==
    \/ \E key \in KeyInputs : PTPCollector_Start(key)
    \/ \E key \in KeyInputs : PTPCollector_CleanUp(key)
    \/ PollSteps

\* The same, with a control path that passes only keys the collector recognizes.
NextPolls ==
    \/ \E key \in Range(ptpCollectables) \cup {All} : PTPCollector_Start(key)
    \/ \E key \in Range(ptpCollectables) \cup {All} : PTPCollector_CleanUp(key)
    \/ PollSteps

\* The GPS collector, its key started and cleaned up while it polls, beside the
\* PMC collector.
NextGPS ==
    \/ \E key \in KeyInputs : GPSCollector_Start(key)
    \/ \E key \in KeyInputs : GPSCollector_CleanUp(key)
    \/ \E p \in PollIds : Idle(GPSCollectorName) /\ GPSCollector_Poll(p)
    \/ \E p \in PollIds : GPSCollector_Poll_fetch(p)
    \/ \E p \in PollIds : GPSCollector_Poll_call(p)
    \/ \E p \in PollIds : GPSCollector_Poll_send(p)
    \/ \E p \in PollIds : GPSCollector_Poll_done(p)
    \/ \E p \in PollIds : Idle(PMCCollectorName) /\ PMCCollector_dispatch(p)
    \/ \E p \in PollIds : PMCCollector_Poll(p)
    \/ \E p \in PollIds : PMCCollector_Poll_send(p)
    \/ \E p \in PollIds : PMCCollector_Poll_done(p)
    \/ Aggregate

(***************************************************************************)
(* The persistent session: ReusedConnectionContext.                        *)
(***************************************************************************)
\* commandChannel: make(chan *command, 10); commandQuit: make(chan os.Signal, 1)
commandChannelCap == 10
commandQuitCap == 1
\* resChan := make(chan *result, 1)
resChanCap == 1

\* what the serializer writes to the shell: a command's text, or the quit line
CmdLine(r) == [kind |-> "cmd", cmd |-> r]
QuitLine == [kind |-> "quit", cmd |-> 0]

\* the session as openShell leaves it: both goroutines started, nothing queued
InitShell ==
    /\ commandChannel = <<>>
    /\ commandQuit = 0
    /\ resChan = [r \in CmdIds |-> <<>>]
    /\ serializer = [pc |-> "select", cmd |-> 0, result |-> 0, err |-> ""]
    /\ pump = "running"
    /\ shellWg = 2
    /\ closer = "idle"
    /\ callers = [r \in CmdIds |-> [pc |-> "idle", via |-> ""]]
    /\ submitted = <<>>
    /\ written = <<>>
    /\ delivered = <<>>

\* execCommand, up to its send: resChan := make(...); c.commandChannel <- &command{...}
ReusedConnectionContext_execCommand(r, via) ==
    /\ callers[r].pc = "idle"
    /\ Len(commandChannel) < commandChannelCap
    /\ commandChannel' = Append(commandChannel, [cmd |-> r, result |-> r])
    /\ submitted' = Append(submitted, r)
    /\ callers' = [callers EXCEPT ![r] = [@ EXCEPT !.pc = "wait", !.via = via]]
    /\ UNCHANGED <<commandQuit, resChan, serializer, pump, shellWg, closer, written,
                   delivered>>
    /\ UNCHANGED <<collectorVars, execVars, moreVars>>

\* execCommand, from its receive: resp := <-resChan; return resp...
ReusedConnectionContext_execCommand_return(r) ==
    /\ callers[r].pc = "wait"
    /\ resChan[r] # <<>>
    /\ callers' = [callers EXCEPT ![r] = [pc |-> "returned", via |-> ""]]
    /\ resChan' = [resChan EXCEPT ![r] = Tail(@)]
    /\ UNCHANGED <<commandChannel, commandQuit, serializer, pump, shellWg, closer,
                   submitted, written, delivered>>
    /\ UNCHANGED <<collectorVars, execVars, moreVars>>

\* mutant: the quit signal is taken while the prompt of a command is awaited
serializer_quit_MidCommand ==
    /\ serializer.pc \in {"select", "expect"}
    /\ commandQuit > 0
    /\ commandQuit' = commandQuit - 1
    /\ written' = Append(written, QuitLine)
    /\ serializer' = [serializer EXCEPT !.pc = "spin"]
    /\ UNCHANGED <<commandChannel, resChan, pump, shellWg, closer, callers, submitted,
                   delivered>>
    /\ UNCHANGED <<collectorVars, execVars, moreVars>>

\* case <-c.commandQuit: c.shell.expecter.SendLine("quit")
serializer_quit ==
    /\ serializer.pc = "select"
    /\ commandQuit > 0
    /\ commandQuit' = commandQuit - 1
    /\ written' = Append(written, QuitLine)
    /\ serializer' = [serializer EXCEPT !.pc = "spin"]
    /\ UNCHANGED <<commandChannel, resChan, pump, shellWg, closer, callers, submitted,
                   delivered>>
    /\ UNCHANGED <<collectorVars, execVars, moreVars>>

\* mutant: the serializer takes the newest command of the queue
serializer_send_Newest ==
    /\ serializer.pc = "select"
    /\ commandChannel # <<>>
    /\ LET cmd == commandChannel[Len(commandChannel)]
       IN /\ written' = Append(written, CmdLine(cmd.cmd))
          /\ serializer' = [serializer EXCEPT !.pc = "expect", !.cmd = cmd.cmd,
                                              !.result = cmd.result]
    /\ commandChannel' = SubSeq(commandChannel, 1, Len(commandChannel) - 1)
    /\ UNCHANGED <<commandQuit, resChan, pump, shellWg, closer, callers, submitted,
                   delivered>>
    /\ UNCHANGED <<collectorVars, execVars, moreVars>>

\* mutant: the serializer goes back to its select without waiting for the prompt
serializer_send_NoWait ==
    /\ serializer.pc = "select"
    /\ commandChannel # <<>>
    /\ LET cmd == Head(commandChannel)
       IN /\ written' = Append(written, CmdLine(cmd.cmd))
          /\ serializer' = [serializer EXCEPT !.cmd = cmd.cmd, !.result = cmd.result]
    /\ commandChannel' = Tail(commandChannel)
    /\ UNCHANGED <<commandQuit, resChan, pump, shellWg, closer, callers, submitted,
                   delivered>>
    /\ UNCHANGED <<collectorVars, execVars, moreVars>>

\* case cmd := <-c.commandChannel: c.shell.expecter.Send(cmd.cmd)
serializer_send ==
    /\ serializer.pc = "select"
    /\ commandChannel # <<>>
    /\ LET cmd == Head(commandChannel)
       IN /\ written' = Append(written, CmdLine(cmd.cmd))
          /\ serializer' = [serializer EXCEPT !.pc = "expect", !.cmd = cmd.cmd,
                                              !.result = cmd.result]
    /\ commandChannel' = Tail(commandChannel)
    /\ UNCHANGED <<commandQuit, resChan, pump, shellWg, closer, callers, submitted,
                   delivered>>
    /\ UNCHANGED <<collectorVars, execVars, moreVars>>

\* stdout, err := c.shell.expecter.Expect(expect.Regexp(anythingThenPromptRE)):
\* the prompt was matched, or the default timeout of one minute passed (or the
\* console was closed) and Expect returns an error;
\* stderr := c.shell.errBuff.String(); c.shell.errBuff.Reset()
serializer_expect ==
    /\ serializer.pc = "expect"
    /\ \E o \in {"prompt", "timeout"} :
          serializer' = [serializer EXCEPT !.pc = "deliver", !.err = o]
    /\ UNCHANGED <<commandChannel, commandQuit, resChan, pump, shellWg, closer, callers,
                   submitted, written, delivered>>
    /\ UNCHANGED <<collectorVars, execVars, moreVars>>

\* cmd.result <- &result{stdout: stdout, stderr: stderr, err: err}
serializer_deliver ==
    /\ serializer.pc = "deliver"
    /\ Len(resChan[serializer.result]) < resChanCap
    /\ resChan' = [resChan EXCEPT ![serializer.result] =
                      Append(@, [cmd |-> serializer.cmd, err |-> serializer.err])]
    /\ delivered' = Append(delivered, [cmd |-> serializer.cmd, chan |-> serializer.result])
    /\ serializer' = [pc |-> "select", cmd |-> 0, result |-> 0, err |-> ""]
    /\ UNCHANGED <<commandChannel, commandQuit, pump, shellWg, closer, callers, submitted,
                   written>>
    /\ UNCHANGED <<collectorVars, execVars, moreVars>>

\* for c.wg.GetCount() == 1 { time.Sleep(time.Microsecond) }; return (defer
\* c.wg.Done()).  While the count is 1 the loop sleeps and tests again, which
\* changes nothing; the goroutine returns when it finds another count.
serializer_return ==
    /\ serializer.pc = "spin"
    /\ shellWg # 1
    /\ shellWg' = shellWg - 1
    /\ serializer' = [serializer EXCEPT !.pc = "exited"]
    /\ UNCHANGED <<commandChannel, commandQuit, resChan, pump, closer, callers, submitted,
                   written, delivered>>
    /\ UNCHANGED <<collectorVars, execVars, moreVars>>

\* the stream pump: exec.StreamWithContext returns (the shell exited, or the
\* stream failed); defer c.wg.Done()
pump_return ==
    /\ pump = "running"
    /\ pump' = "ended"
    /\ shellWg' = shellWg - 1
    /\ UNCHANGED <<commandChannel, commandQuit, resChan, serializer, closer, callers,
                   submitted, written, delivered>>
    /\ UNCHANGED <<collectorVars, execVars, moreVars>>

\* CloseShell: c.commandQuit <- os.Kill
ReusedConnectionContext_CloseShell ==
    /\ closer = "idle"
    /\ commandQuit < commandQuitCap
    /\ commandQuit' = commandQuit + 1
    /\ closer' = "wait"
    /\ UNCHANGED <<commandChannel, resChan, serializer, pump, shellWg, callers, submitted,
                   written, delivered>>
    /\ UNCHANGED <<collectorVars, execVars, moreVars>>

\* mutant: CloseShell does not wait for the goroutines
ReusedConnectionContext_CloseShell_return_NoWait ==
    /\ closer = "wait"
    /\ closer' = "returned"
    /\ UNCHANGED <<commandChannel, commandQuit, resChan, serializer, pump, shellWg,
                   callers, submitted, written, delivered>>
    /\ UNCHANGED <<collectorVars, execVars, moreVars>>

\* CloseShell: c.wg.Wait() returns
ReusedConnectionContext_CloseShell_return ==
    /\ closer = "wait"
    /\ shellWg = 0
    /\ closer' = "returned"
    /\ UNCHANGED <<commandChannel, commandQuit, resChan, serializer, pump, shellWg,
                   callers, submitted, written, delivered>>
    /\ UNCHANGED <<collectorVars, execVars, moreVars>>

(***************************************************************************)
(* The per-call session: ContainerExecContext.  A name is a sequence of    *)
(* parts, and a prefix is a leading part of it.                            *)
(***************************************************************************)
Namespace == "openshift-ptp"
ContainerName == "linuxptp-daemon-container"

\* the names a pod of the namespace can have
PodNames == {<<"ptp", "a">>, <<"ptp", "b">>, <<"gm", "a">>}

\* strings.HasPrefix(name, prefix)
HasPrefix(name, prefix) ==
    /\ Len(prefix) <= Len(name)
    /\ SubSeq(name, 1, Len(prefix)) = prefix

\* the zero ContainerExecContext, and the record of no call
NoContext == [built |-> FALSE, namespace |-> "", podName |-> <<>>, containerName |-> "",
              podNamePrefix |-> <<>>]
NoCall == [pc |-> "idle", via |-> "", target |-> <<>>, setup |-> "", streams |-> <<>>,
           stdout |-> "", stderr |-> "", err |-> ""]

\* before a context is constructed: the namespace lists one pod
InitExec ==
    /\ podList = <<<<"ptp", "a">>>>
    /\ ctx = NoContext
    /\ call = NoCall
    /\ prev = [done |-> FALSE, target |-> <<>>, setup |-> "", streams |-> <<>>,
               stdout |-> "", stderr |-> "", err |-> "", wrap |-> "", nameAfter |-> <<>>]
    /\ calls = 0
    /\ made = [done |-> FALSE, listing |-> <<>>, podNamePrefix |-> <<>>,
               ctx |-> NoContext, err |-> ""]

\* Clientset.FindPodNameFromPrefix(namespace, prefix): the name of the first
\* listed pod that carries the prefix, or an error when there is none
FindPodNameFromPrefix(listing, prefix) ==
    LET m == {i \in 1..Len(listing) : HasPrefix(listing[i], prefix)}
    IN IF m = {}
       THEN [name |-> <<>>, err |-> "no pod found"]
       ELSE [name |-> listing[CHOOSE i \in m : \A j \in m : i <= j], err |-> ""]

\* mutant: the re-resolution skips the pod it holds, as the restarted one
refresh_Other(c, listing) ==
    LET m == {i \in 1..Len(listing) :
                 HasPrefix(listing[i], c.podNamePrefix) /\ listing[i] # c.podName}
    IN IF m = {}
       THEN [ctx |-> c, err |-> "no pod found"]
       ELSE [ctx |-> [c EXCEPT !.podName = listing[CHOOSE i \in m : \A j \in m : i <= j]],
             err |-> ""]

\* mutant: the name is assigned before the error is looked at
refresh_AssignFirst(c, listing) ==
    LET f == FindPodNameFromPrefix(listing, c.podNamePrefix)
    IN [ctx |-> [c EXCEPT !.podName = f.name], err |-> f.err]

\* refresh: the context after the call, and the error it returns
refresh(c, listing) ==
    LET f == FindPodNameFromPrefix(listing, c.podNamePrefix)
    IN IF f.err # ""
       THEN [ctx |-> c, err |-> f.err]
       ELSE [ctx |-> [c EXCEPT !.podName = f.name], err |-> ""]

\* mutant: the prefix is stored as the name of the pod
NewContainerContext_PrefixAsName(listing, namespace, podNamePrefix, containerName) ==
    LET f == FindPodNameFromPrefix(listing, podNamePrefix)
    IN IF f.err # ""
       THEN [ctx |-> NoContext, err |-> f.err]
       ELSE [ctx |-> [built |-> TRUE, namespace |-> namespace, podName |-> podNamePrefix,
                      containerName |-> containerName, podNamePrefix |-> podNamePrefix],
             err |-> ""]

\* NewContainerContext: the context and the error it returns
NewContainerContext(listing, namespace, podNamePrefix, containerName) ==
    LET f == FindPodNameFromPrefix(listing, podNamePrefix)
    IN IF f.err # ""
       THEN [ctx |-> NoContext, err |-> f.err]
       ELSE [ctx |-> [built |-> TRUE, namespace |-> namespace, podName |-> f.name,
                      containerName |-> containerName, podNamePrefix |-> podNamePrefix],
             err |-> ""]

\* NewContainerCreationExecContext: the given name is both prefix and name
NewContainerCreationExecContext(namespace, podName, containerName) ==
    [built |-> TRUE, namespace |-> namespace, podName |-> podName,
     containerName |-> containerName, podNamePrefix |-> podName]

\* a caller constructs the session from a prefix; on an error there is none
NewContainerContext_call ==
    /\ ~ctx.built
    /\ calls = 0
    /\ \E prefix \in {<<"ptp">>, <<"gm">>, <<"ptp", "b">>} :
          LET r == NewContainerContext(podList, Namespace, prefix, ContainerName)
          IN /\ ctx' = r.ctx
             /\ made' = [done |-> TRUE, listing |-> podList, podNamePrefix |-> prefix,
                         ctx |-> r.ctx, err |-> r.err]
    /\ UNCHANGED <<podList, call, prev, calls>>
    /\ UNCHANGED <<collectorVars, shellVars, moreVars>>

\* NewReusedConnectionContext, up to openShell: the name is looked up from the
\* prefix and handed to NewContainerContext in the place of the prefix;
\* expect.NewConsole or openShell's NewSPDYExecutor can fail after that
NewReusedConnectionContext(listing, namespace, podNamePrefix, containerName, o) ==
    LET f == FindPodNameFromPrefix(listing, podNamePrefix)
        containerCtx == NewContainerContext(listing, namespace, f.name, containerName)
    IN IF f.err # ""
       THEN [ctx |-> NoContext, err |-> f.err]
       ELSE IF containerCtx.err # ""
       THEN [ctx |-> NoContext, err |-> containerCtx.err]
       ELSE IF o # "ok"
       THEN [ctx |-> NoContext, err |-> o]
       ELSE containerCtx

\* a caller constructs a persistent session from a prefix
NewReusedConnectionContext_call ==
    /\ ~ctx.built
    /\ calls = 0
    /\ \E prefix \in {<<"ptp">>, <<"gm">>, <<"ptp", "b">>},
          o \in {"ok", "consoleErr", "setupErr"} :
          LET r == NewReusedConnectionContext(podList, Namespace, prefix, ContainerName, o)
          IN /\ ctx' = r.ctx
             /\ made' = [done |-> TRUE, listing |-> podList, podNamePrefix |-> prefix,
                         ctx |-> r.ctx, err |-> r.err]
    /\ UNCHANGED <<podList, call, prev, calls>>
    /\ UNCHANGED <<collectorVars, shellVars, moreVars>>

\* a caller constructs the session of a pod it is going to create
NewContainerCreationExecContext_call ==
    /\ ~ctx.built
    /\ calls = 0
    /\ \E name \in PodNames :
          ctx' = NewContainerCreationExecContext(Namespace, name, ContainerName)
    /\ UNCHANGED <<podList, call, prev, calls, made>>
    /\ UNCHANGED <<collectorVars, shellVars, moreVars>>

\* the cluster: a pod of the namespace goes away
Cluster_podDeleted ==
    /\ \E i \in 1..Len(podList) :
          podList' = SubSeq(podList, 1, i - 1) \o SubSeq(podList, i + 1, Len(podList))
    /\ UNCHANGED <<ctx, call, prev, calls, made>>
    /\ UNCHANGED <<collectorVars, shellVars, moreVars>>

\* the cluster: a pod comes up in the namespace
Cluster_podCreated ==
    /\ \E name \in PodNames \ Range(podList) : podList' = Append(podList, name)
    /\ UNCHANGED <<ctx, call, prev, calls, made>>
    /\ UNCHANGED <<collectorVars, shellVars, moreVars>>

\* execCommand, up to the request: req := ...Name(c.GetPodName())...
ContainerExecContext_execCommand(via) ==
    /\ ctx.built
    /\ call.pc = "idle"
    /\ calls < MaxCalls
    /\ calls' = calls + 1
    /\ call' = [NoCall EXCEPT !.pc = "setup", !.via = via, !.target = ctx.podName]
    /\ UNCHANGED <<podList, ctx, prev, made>>
    /\ UNCHANGED <<collectorVars, shellVars, moreVars>>

\* mutant: the error of the executor setup is not looked at
execCommand_NewSPDYExecutor_Unchecked ==
    /\ call.pc = "setup"
    /\ \E o \in {"ok", "setupErr"} :
          call' = IF o = "ok"
                  THEN [call EXCEPT !.pc = "stream", !.setup = o]
                  ELSE [call EXCEPT !.pc = "stream", !.setup = o, !.err = o]
    /\ UNCHANGED <<podList, ctx, prev, calls, made>>
    /\ UNCHANGED <<collectorVars, shellVars, moreVars>>

\* exec, err := NewSPDYExecutor(...); if err != nil { return ... }
execCommand_NewSPDYExecutor ==
    /\ call.pc = "setup"
    /\ \E o \in {"ok", "setupErr"} :
          call' = IF o = "ok"
                  THEN [call EXCEPT !.pc = "stream", !.setup = o]
                  ELSE [call EXCEPT !.pc = "return", !.setup = o, !.err = o]
    /\ UNCHANGED <<podList, ctx, prev, calls, made>>
    /\ UNCHANGED <<collectorVars, shellVars, moreVars>>

\* what the stream to a pod returns: not-found when no such pod is listed
StreamOutcomes(target) ==
    IF target \in Range(podList) THEN {"ok", "streamErr"} ELSE {"notFound", "streamErr"}

\* mutant: the two buffers are read into each other's result
execCommand_StreamWithContext_Swapped ==
    /\ call.pc = "stream"
    /\ \E o \in StreamOutcomes(call.target), w \in {<<"", "">>, <<"out", "err">>} :
          call' = [call EXCEPT
                      !.streams = Append(@, [target |-> call.target, out |-> o,
                                             stdout |-> w[1], stderr |-> w[2]]),
                      !.stdout = w[2],
                      !.stderr = w[1],
                      !.err = IF o = "ok" THEN "" ELSE o,
                      !.pc = IF o = "notFound" THEN "refresh" ELSE "return"]
    /\ UNCHANGED <<podList, ctx, prev, calls, made>>
    /\ UNCHANGED <<collectorVars, shellVars, moreVars>>

\* err = exec.StreamWithContext(...), the remote side writing w to the two buffers;
\* stdout, stderr = buffOut.String(), buffErr.String();
\* if err != nil { if IsNotFound(err) {...} ... }
execCommand_StreamWithContext ==
    /\ call.pc = "stream"
    /\ \E o \in StreamOutcomes(call.target), w \in {<<"", "">>, <<"out", "err">>} :
          call' = [call EXCEPT
                      !.streams = Append(@, [target |-> call.target, out |-> o,
                                             stdout |-> w[1], stderr |-> w[2]]),
                      !.stdout = w[1],
                      !.stderr = w[2],
                      !.err = IF o = "ok" THEN "" ELSE o,
                      !.pc = IF o = "notFound" THEN "refresh" ELSE "return"]
    /\ UNCHANGED <<podList, ctx, prev, calls, made>>
    /\ UNCHANGED <<collectorVars, shellVars, moreVars>>

\* mutant: after a refresh that found a pod the stream is attempted again
execCommand_refresh_Retry ==
    /\ call.pc = "refresh"
    /\ LET r == refresh(ctx, podList)
       IN /\ ctx' = r.ctx
          /\ call' = IF r.err = ""
                     THEN [call EXCEPT !.pc = "stream", !.target = r.ctx.podName]
                     ELSE [call EXCEPT !.pc = "return"]
    /\ UNCHANGED <<podList, prev, calls, made>>
    /\ UNCHANGED <<collectorVars, shellVars, moreVars>>

\* refreshErr := c.refresh(); if refreshErr != nil { log.Debug(...) }
execCommand_refresh ==
    /\ call.pc = "refresh"
    /\ ctx' = refresh(ctx, podList).ctx
    /\ call' = [call EXCEPT !.pc = "return"]
    /\ UNCHANGED <<podList, prev, calls, made>>
    /\ UNCHANGED <<collectorVars, shellVars, moreVars>>

\* the prefix fmt.Errorf puts before the wrapped error
Wrapping(call_) ==
    IF call_.err = "" THEN ""
    ELSE IF call_.streams = <<>> THEN "error setting up remote command"
    ELSE "error running remote command"

\* return stdout, stderr, fmt.Errorf("error running remote command: %w", err), or
\* return stdout, stderr, nil
execCommand_return ==
    /\ call.pc = "return"
    /\ prev' = [done |-> TRUE, target |-> call.target, setup |-> call.setup,
                streams |-> call.streams, stdout |-> call.stdout, stderr |-> call.stderr,
                err |-> call.err, wrap |-> Wrapping(call), nameAfter |-> ctx.podName]
    /\ call' = NoCall
    /\ UNCHANGED <<podList, ctx, calls, made>>
    /\ UNCHANGED <<collectorVars, shellVars, moreVars>>

(***************************************************************************)
(* The fetchers of package devices: GetPTPDeviceInfo, GetDevDPLLInfo and   *)
(* ReadGNSSDev memoize one Fetcher per key in three maps, and Fetch runs   *)
(* the commands of a Fetcher on the session.                               *)
(***************************************************************************)
\* the three maps, and the keys the workers pass (interface names; for the
\* GNSS map the device of the interface)
FetcherKinds == {"dev", "gnss", "dpll"}
FetcherKeys == {"ens1f0", "ens2f0"}
WorkerIds == {1, 2}

\* a command of a Fetcher: its label and its cached flag
Command(label, cached) == [label |-> label, cached |-> cached]

\* dateCmd, added to every Fetcher with AddCommand
dateCmd == Command("date", FALSE)

\* the commands each function adds with AddNewCommand(label, command, true)
FetcherCommands(kind) ==
    IF kind = "dev"
    THEN <<dateCmd, Command("gnss", TRUE), Command("devID", TRUE),
           Command("vendorID", TRUE)>>
    ELSE IF kind = "gnss"
    THEN <<dateCmd, Command("lines", TRUE)>>
    ELSE <<dateCmd, Command("dpll_0_state", TRUE), Command("dpll_1_state", TRUE),
           Command("dpll_1_offset", TRUE)>>

Labels(cmds) == {cmds[i].label : i \in 1..Len(cmds)}

\* NewFetcher(): no command yet.  stored: the labels whose value is cached.
\* Counted per label for the record: the executions (execs) and those of a label
\* whose value was stored already (late), the Fetch calls made while the label
\* was a command of the Fetcher (held); and all the Fetch calls (fetches).
NewFetcher(kind, key) ==
    [kind |-> kind, key |-> key, cmds |-> <<>>, stored |-> {},
     execs |-> [l \in Labels(FetcherCommands(kind)) |-> 0],
     late |-> [l \in Labels(FetcherCommands(kind)) |-> 0],
     held |-> [l \in Labels(FetcherCommands(kind)) |-> 0], fetches |-> 0]

NoWorker == [pc |-> "idle", kind |-> "", key |-> "", inst |-> 0, err |-> FALSE]

\* package devices after init()
InitFetcher ==
    /\ fetcherMaps = [k \in FetcherKinds |-> EmptyMap]
    /\ fetcherMutex = 0
    /\ fetchers = <<>>
    /\ workers = [w \in WorkerIds |-> NoWorker]
    /\ fetchCalls = 0

\* mutant: the stored values are not looked at
Fetch_NoCache(f, outs) ==
    LET ran == {i \in 1..Len(f.cmds) : TRUE}
        failed == {i \in ran : outs[f.cmds[i].label] = "err"}
    IN [ran |-> {f.cmds[i].label : i \in ran},
        ok |-> {f.cmds[i].label : i \in ran \ failed},
        stored |-> f.stored \cup {f.cmds[i].label : i \in {j \in ran \ failed : f.cmds[j].cached}},
        err |-> failed # {}]

\* Fetcher.Fetch, step 1: every command that is not cached, or whose value is not
\* stored yet, is executed on the session (outs: what each execution returns); the
\* value of a cached command that succeeded is stored.  The result: the labels
\* executed (ran), those that succeeded (ok), the stored labels afterwards, and
\* whether Fetch returns an error (the first one of an execution).
Fetch(f, outs) ==
    LET ran == {i \in 1..Len(f.cmds) : ~f.cmds[i].cached \/ f.cmds[i].label \notin f.stored}
        failed == {i \in ran : outs[f.cmds[i].label] = "err"}
    IN [ran |-> {f.cmds[i].label : i \in ran},
        ok |-> {f.cmds[i].label : i \in ran \ failed},
        stored |-> f.stored \cup {f.cmds[i].label : i \in {j \in ran \ failed : f.cmds[j].cached}},
        err |-> failed # {}]

\* a worker calls GetPTPDeviceInfo ("dev"), ReadGNSSDev ("gnss") or
\* GetDevDPLLInfo ("dpll"): fetcherInst, ok := devFetcher[interfaceName]
GetInfo_lookup(w, kind, key) ==
    /\ workers[w].pc = "idle"
    /\ fetchCalls < MaxFetchCalls
    /\ fetchCalls' = fetchCalls + 1
    /\ workers' = [workers EXCEPT ![w] =
                      IF key \in DOMAIN fetcherMaps[kind]
                      THEN [NoWorker EXCEPT !.pc = "fetch", !.kind = kind, !.key = key,
                                            !.inst = fetcherMaps[kind][key]]
                      ELSE [NoWorker EXCEPT !.pc = "lock", !.kind = kind, !.key = key]]
    /\ UNCHANGED <<fetcherMaps, fetcherMutex, fetchers>>
    /\ UNCHANGED <<baseVars, selection, lifecycleVars, runLoop, ptpDev>>

GetPTPDeviceInfo(w, key) == GetInfo_lookup(w, "dev", key)

ReadGNSSDev(w, key) == GetInfo_lookup(w, "gnss", key)

GetDevDPLLInfo(w, key) == GetInfo_lookup(w, "dpll", key)

\* if !ok { fetcherMutex.Lock(); defer fetcherMutex.Unlock()
GetInfo_lock(w) ==
    /\ workers[w].pc = "lock"
    /\ fetcherMutex = 0
    /\ fetcherMutex' = w
    /\ workers' = [workers EXCEPT ![w] = [@ EXCEPT !.pc = "create"]]
    /\ UNCHANGED <<fetcherMaps, fetchers, fetchCalls>>
    /\ UNCHANGED <<baseVars, selection, lifecycleVars, runLoop, ptpDev>>

\* fetcherInst = NewFetcher(); devFetcher[interfaceName] = fetcherInst
GetInfo_create(w) ==
    /\ workers[w].pc = "create"
    /\ fetcherMutex = w
    /\ fetchers' = Append(fetchers, NewFetcher(workers[w].kind, workers[w].key))
    /\ fetcherMaps' = [fetcherMaps EXCEPT ![workers[w].kind] =
                          MapSet(@, workers[w].key, Len(fetchers) + 1)]
    /\ workers' = [workers EXCEPT ![w] = [@ EXCEPT !.pc = "add", !.inst = Len(fetchers) + 1]]
    /\ UNCHANGED <<fetcherMutex, fetchCalls>>
    /\ UNCHANGED <<baseVars, selection, lifecycleVars, runLoop, ptpDev>>

\* fetcherInst.AddCommand(dateCmd), then one fetcherInst.AddNewCommand(...) after
\* the other: when AddNewCommand returns an error the call returns it, the
\* Fetcher staying in the map with the commands added before
GetInfo_AddCommand(w) ==
    /\ workers[w].pc = "add"
    /\ fetcherMutex = w
    /\ LET f == fetchers[workers[w].inst]
           all == FetcherCommands(f.kind)
           n == Len(f.cmds) + 1
       IN \E o \in IF n = 1 THEN {"ok"} ELSE {"ok", "err"} :
             IF o = "ok"
             THEN /\ fetchers' = [fetchers EXCEPT ![workers[w].inst] =
                                     [@ EXCEPT !.cmds = Append(@, all[n])]]
                  /\ workers' = [workers EXCEPT ![w] =
                                    [@ EXCEPT !.pc = IF n = Len(all) THEN "fetch" ELSE "add"]]
             ELSE /\ workers' = [workers EXCEPT ![w] = [@ EXCEPT !.pc = "return", !.err = TRUE]]
                  /\ UNCHANGED fetchers
    /\ UNCHANGED <<fetcherMaps, fetcherMutex, fetchCalls>>
    /\ UNCHANGED <<baseVars, selection, lifecycleVars, runLoop, ptpDev>>

\* err := fetcherInst.Fetch(ctx, &devInfo)
GetInfo_Fetch(w) ==
    /\ workers[w].pc = "fetch"
    /\ LET f == fetchers[workers[w].inst]
       IN \E outs \in [Labels(f.cmds) -> {"ok", "err"}] :
             LET r == Fetch(f, outs)
             IN /\ fetchers' = [fetchers EXCEPT ![workers[w].inst] =
                      [@ EXCEPT !.stored = r.stored,
                                !.fetches = @ + 1,
                                !.held = [l \in DOMAIN @ |->
                                             IF l \in Labels(f.cmds) THEN @[l] + 1 ELSE @[l]],
                                !.execs = [l \in DOMAIN @ |-> IF l \in r.ran THEN @[l] + 1 ELSE @[l]],
                                !.late = [l \in DOMAIN @ |->
                                             IF l \in r.ran /\ l \in f.stored
                                             THEN @[l] + 1 ELSE @[l]]]]
                /\ workers' = [workers EXCEPT ![w] = [@ EXCEPT !.pc = "return", !.err = r.err]]
    /\ UNCHANGED <<fetcherMaps, fetcherMutex, fetchCalls>>
    /\ UNCHANGED <<baseVars, selection, lifecycleVars, runLoop, ptpDev>>

\* return: the deferred fetcherMutex.Unlock() of the call that took the mutex
GetInfo_return(w) ==
    /\ workers[w].pc = "return"
    /\ fetcherMutex' = IF fetcherMutex = w THEN 0 ELSE fetcherMutex
    /\ workers' = [workers EXCEPT ![w] = NoWorker]
    /\ UNCHANGED <<fetcherMaps, fetchers, fetchCalls>>
    /\ UNCHANGED <<baseVars, selection, lifecycleVars, runLoop, ptpDev>>

(***************************************************************************)
(* The selection of the collectors to run: package runner.  A name is the  *)
(* sequence of its characters, so that two names are equal when they are   *)
(* spelt alike and strings.EqualFold compares them character by character. *)
(***************************************************************************)
\* collectors.DevInfoCollectorName, DPLLCollectorName and GPSCollectorName
DevInfoName == <<"D", "e", "v", "I", "n", "f", "o">>
DPLLName == <<"D", "P", "L", "L">>
GPSName == <<"G", "P", "S", "-", "U", "B", "X">>

\* runner.All
runnerAll == <<"a", "l", "l">>

\* init(): the registered names
OptionalCollectorNames == <<DPLLName, GPSName>>
RequiredCollectorNames == <<DevInfoName>>

\* the names a request is made of: registered names, the same in another letter
\* case, "all" in two letter cases and a name of no collector
\* (the requests are the values of the --collector flag)
Requests ==
    LET RequestNames == {DevInfoName, DPLLName, <<"d", "p", "l", "l">>, GPSName,
                         runnerAll, <<"A", "L", "L">>, <<"f", "o", "o">>}
    IN UNION {[1..n -> RequestNames] : n \in 0..MaxRequest}

\* the upper-case letters of the names and their lower-case forms
LowerOf ==
    [c \in {"A", "B", "D", "G", "I", "L", "P", "S", "U", "X"} |->
        CASE c = "A" -> "a" [] c = "B" -> "b" [] c = "D" -> "d" [] c = "G" -> "g"
          [] c = "I" -> "i" [] c = "L" -> "l" [] c = "P" -> "p" [] c = "S" -> "s"
          [] c = "U" -> "u" [] c = "X" -> "x"]

\* the case folding of one character
Fold(c) == IF c \in DOMAIN LowerOf THEN LowerOf[c] ELSE c

\* mutant: the comparison is exact
EqualFold_Exact(s, t) == s = t

\* strings.EqualFold(s, t): equal under case folding
EqualFold(s, t) ==
    /\ Len(s) = Len(t)
    /\ \A i \in 1..Len(s) : Fold(s[i]) = Fold(t[i])

\* isIn(name, arr)
isIn(name, arr) == \E i \in 1..Len(arr) : name = arr[i]

\* removeDuplicates: for _, name := range arr, from index i on, res so far
RECURSIVE removeDuplicates_range(_, _, _)
removeDuplicates_range(arr, i, res) ==
    IF i > Len(arr)
    THEN res
    ELSE removeDuplicates_range(arr, i + 1,
                                IF isIn(arr[i], res) THEN res ELSE Append(res, arr[i]))

\* mutant: nothing is removed
removeDuplicates_Keep(arr) == arr

\* removeDuplicates(arr)
removeDuplicates(arr) == removeDuplicates_range(arr, 1, <<>>)

\* mutant: the loop ends at the first unknown name
RECURSIVE GetCollectorsToRun_range_StopAtUnknown(_, _, _)
GetCollectorsToRun_range_StopAtUnknown(selectedCollectors, i, collectorNames) ==
    IF i > Len(selectedCollectors)
    THEN collectorNames
    ELSE LET name == selectedCollectors[i]
         IN IF EqualFold(name, runnerAll)
            THEN removeDuplicates(collectorNames \o OptionalCollectorNames)
            ELSE IF isIn(name, collectorNames)
            THEN GetCollectorsToRun_range_StopAtUnknown(selectedCollectors, i + 1, collectorNames)
            ELSE IF isIn(name, OptionalCollectorNames)
            THEN GetCollectorsToRun_range_StopAtUnknown(selectedCollectors, i + 1,
                                                        Append(collectorNames, name))
            ELSE collectorNames

\* GetCollectorsToRun: for _, name := range selectedCollectors, from index i on,
\* with collectorNames so far.  The default case logs "Unknown collector" and
\* goes on.
RECURSIVE GetCollectorsToRun_range(_, _, _)
GetCollectorsToRun_range(selectedCollectors, i, collectorNames) ==
    IF i > Len(selectedCollectors)
    THEN collectorNames
    ELSE LET name == selectedCollectors[i]
         IN IF EqualFold(name, runnerAll)
            THEN removeDuplicates(collectorNames \o OptionalCollectorNames)
            ELSE IF isIn(name, collectorNames)
            THEN GetCollectorsToRun_range(selectedCollectors, i + 1, collectorNames)
            ELSE IF isIn(name, OptionalCollectorNames)
            THEN GetCollectorsToRun_range(selectedCollectors, i + 1,
                                          Append(collectorNames, name))
            ELSE GetCollectorsToRun_range(selectedCollectors, i + 1, collectorNames)

\* mutant: the list does not start with the required names
GetCollectorsToRun_NoRequired(selectedCollectors) ==
    GetCollectorsToRun_range(selectedCollectors, 1, <<>>)

\* GetCollectorsToRun(selectedCollectors)
GetCollectorsToRun(selectedCollectors) ==
    GetCollectorsToRun_range(selectedCollectors, 1, RequiredCollectorNames)

\* the collect command calls GetCollectorsToRun with the requested names
GetCollectorsToRun_call(selectedCollectors) ==
    /\ selection' = [request |-> selectedCollectors,
                     result |-> GetCollectorsToRun(selectedCollectors),
                     returned |-> TRUE]
    /\ UNCHANGED <<baseVars, fetcherVars, lifecycleVars, runLoop, ptpDev>>

(***************************************************************************)
(* ContainerCreationExecContext: CreatePodAndWait and DeletePodAndWait of  *)
(* one context, called one after the other, and the cluster's pod of the   *)
(* context's name.                                                         *)
(***************************************************************************)
\* c.pod: nil, the empty object Create returns with an error, or the object the
\* API server returned for the pod, with the phase it had then
NilPod == [kind |-> "nil", phase |-> ""]
EmptyPod == [kind |-> "empty", phase |-> ""]
PodObject(phase) == [kind |-> "pod", phase |-> phase]

\* no call in progress.  Of the call in progress: the create and delete requests
\* sent (creates, deletes), whether the first isPodRunning found the pod running
\* (wasRunning), whether the delete request met no pod (notFound), whether a
\* listing missed the name (missing), whether a request failed for a reason
\* other than the state of the pod (apiFailed), the polls of the wait loop
\* (polled); and the call that returned nil right before this one (after)
NoLife == [op |-> "", pc |-> "idle", result |-> "", creates |-> 0, deletes |-> 0,
           wasRunning |-> FALSE, notFound |-> FALSE, missing |-> FALSE,
           apiFailed |-> FALSE, polled |-> FALSE, after |-> ""]

\* NewContainerCreationExecContext: no pod object held; the cluster without the pod
InitLifecycle ==
    /\ clusterPod = [phase |-> "absent", deleting |-> FALSE]
    /\ cpod = NilPod
    /\ life = NoLife
    /\ lifeCalls = 0

\* what a request to the API server returns besides its answer: the request
\* fails, or not
ApiOutcomes == {"ok", "err"}

Return(result) == [life EXCEPT !.pc = "return", !.result = result]

\* the kubelet starts the pod's container
Cluster_podRunning ==
    /\ clusterPod.phase = "Pending"
    /\ ~clusterPod.deleting
    /\ clusterPod' = [clusterPod EXCEPT !.phase = "Running"]
    /\ UNCHANGED <<cpod, life, lifeCalls>>
    /\ UNCHANGED <<baseVars, fetcherVars, selection, runLoop, ptpDev>>

\* the foreground deletion of the pod completes
Cluster_podGone ==
    /\ clusterPod.deleting
    /\ clusterPod' = [phase |-> "absent", deleting |-> FALSE]
    /\ UNCHANGED <<cpod, life, lifeCalls>>
    /\ UNCHANGED <<baseVars, fetcherVars, selection, runLoop, ptpDev>>

\* CreatePodAndWait: running := false; if c.pod != nil { isPodRunning } else
\* on to createPod
CreatePodAndWait ==
    /\ life.pc = "idle"
    /\ lifeCalls < MaxLifeCalls
    /\ lifeCalls' = lifeCalls + 1
    /\ life' = [NoLife EXCEPT !.op = "create", !.after = life.after,
                              !.pc = IF cpod # NilPod THEN "isPodRunning" ELSE "createPod"]
    /\ UNCHANGED <<clusterPod, cpod>>
    /\ UNCHANGED <<baseVars, fetcherVars, selection, runLoop, ptpDev>>

\* refeshPod: listPods with the name as field selector; an error of the listing
\* is returned, no item is "failed to find pod", else c.pod = &pods.Items[0].
\* The result: the error or "", and c.pod afterwards.
refeshPod(api) ==
    IF api = "err"
    THEN [err |-> "failed to find pods", pod |-> cpod]
    ELSE IF clusterPod.phase = "absent"
    THEN [err |-> "failed to find pod", pod |-> cpod]
    ELSE [err |-> "", pod |-> PodObject(clusterPod.phase)]

\* isPodRunning: refeshPod, then c.pod.Status.Phase == corev1.PodRunning
isPodRunning(api) ==
    LET r == refeshPod(api)
    IN [err |-> r.err, pod |-> r.pod, running |-> r.err = "" /\ r.pod.phase = "Running"]

\* CreatePodAndWait: running, err = c.isPodRunning(); if err != nil { return err }
CreatePodAndWait_isPodRunning ==
    /\ life.pc = "isPodRunning"
    /\ \E api \in ApiOutcomes :
          LET r == isPodRunning(api)
          IN /\ cpod' = r.pod
             /\ life' = IF r.err # ""
                        THEN [Return(r.err) EXCEPT !.apiFailed = (api = "err")]
                        ELSE [life EXCEPT !.wasRunning = r.running,
                                          !.pc = IF r.running THEN "waitForPodToStart"
                                                 ELSE "createPod"]
    /\ UNCHANGED <<clusterPod, lifeCalls>>
    /\ UNCHANGED <<baseVars, fetcherVars, selection, runLoop, ptpDev>>

\* if !running { err := c.createPod(); if err != nil { return err } }.  createPod
\* sends the create request and assigns what it returns to c.pod whether or not
\* it failed: the created pod, or an empty object with the error (the pod exists
\* already, or the request failed)
CreatePodAndWait_createPod ==
    /\ life.pc = "createPod"
    /\ \E api \in ApiOutcomes :
          IF api = "ok" /\ clusterPod.phase = "absent"
          THEN /\ clusterPod' = [phase |-> "Pending", deleting |-> FALSE]
               /\ cpod' = PodObject("Pending")
               /\ life' = [life EXCEPT !.creates = @ + 1, !.pc = "waitForPodToStart"]
          ELSE /\ cpod' = EmptyPod
               /\ life' = [Return("failed to create pod") EXCEPT
                              !.creates = @ + 1, !.apiFailed = (api = "err")]
               /\ UNCHANGED clusterPod
    /\ UNCHANGED lifeCalls
    /\ UNCHANGED <<baseVars, fetcherVars, selection, runLoop, ptpDev>>

\* waitForPodToStart, one turn of the loop: isPodRunning; its error is returned,
\* running returns nil, else time.Sleep and again
waitForPodToStart_isPodRunning ==
    /\ life.pc = "waitForPodToStart"
    /\ \E api \in ApiOutcomes :
          LET r == isPodRunning(api)
          IN /\ cpod' = r.pod
             /\ life' = IF r.err # ""
                        THEN [Return(r.err) EXCEPT !.apiFailed = (api = "err")]
                        ELSE IF r.running THEN Return("ok")
                        ELSE [life EXCEPT !.polled = TRUE]
    /\ UNCHANGED <<clusterPod, lifeCalls>>
    /\ UNCHANGED <<baseVars, fetcherVars, selection, runLoop, ptpDev>>

\* mutant: the pod is deleted when the wait times out
waitForPodToStart_timeout_Delete ==
    /\ life.pc = "waitForPodToStart"
    /\ life.polled
    /\ life' = [Return("timed out waiting for pod to start") EXCEPT !.deletes = @ + 1]
    /\ clusterPod' = [phase |-> "absent", deleting |-> FALSE]
    /\ UNCHANGED <<cpod, lifeCalls>>
    /\ UNCHANGED <<baseVars, fetcherVars, selection, runLoop, ptpDev>>

\* waitForPodToStart: time.Since(start) > startTimeout after a turn of the loop:
\* return errors.New("timed out waiting for pod to start")
waitForPodToStart_timeout ==
    /\ life.pc = "waitForPodToStart"
    /\ life.polled
    /\ life' = Return("timed out waiting for pod to start")
    /\ UNCHANGED <<clusterPod, cpod, lifeCalls>>
    /\ UNCHANGED <<baseVars, fetcherVars, selection, runLoop, ptpDev>>

\* DeletePodAndWait: deletePod reads c.pod.Namespace and c.pod.Name: a nil c.pod
\* is a nil pointer dereference, the program panics
DeletePodAndWait ==
    /\ life.pc = "idle"
    /\ lifeCalls < MaxLifeCalls
    /\ lifeCalls' = lifeCalls + 1
    /\ life' = [NoLife EXCEPT !.op = "delete", !.after = life.after,
                              !.pc = IF cpod = NilPod THEN "panic" ELSE "deletePod"]
    /\ UNCHANGED <<clusterPod, cpod>>
    /\ UNCHANGED <<baseVars, fetcherVars, selection, runLoop, ptpDev>>

\* deletePod: the delete request with foreground propagation; any error of it,
\* not-found included, is returned as "failed to delete pod".  The empty object
\* has no name, and the request fails.
DeletePodAndWait_deletePod ==
    /\ life.pc = "deletePod"
    /\ \E api \in ApiOutcomes :
          IF api = "ok" /\ cpod # EmptyPod /\ clusterPod.phase # "absent"
          THEN /\ clusterPod' = [clusterPod EXCEPT !.deleting = TRUE]
               /\ life' = [life EXCEPT !.deletes = @ + 1, !.pc = "waitForPodToDelete"]
          ELSE /\ life' = [Return("failed to delete pod") EXCEPT
                              !.deletes = @ + 1,
                              !.apiFailed = (api = "err" \/ cpod = EmptyPod),
                              !.notFound = (api = "ok" /\ cpod # EmptyPod)]
               /\ UNCHANGED clusterPod
    /\ UNCHANGED <<cpod, lifeCalls>>
    /\ UNCHANGED <<baseVars, fetcherVars, selection, runLoop, ptpDev>>

\* mutant: a pod being deleted counts as gone
waitForPodToDelete_listPods_Deleting ==
    /\ life.pc = "waitForPodToDelete"
    /\ \E api \in ApiOutcomes :
          life' = IF api = "err"
                  THEN [Return("failed to find pods") EXCEPT !.apiFailed = TRUE]
                  ELSE IF clusterPod.phase = "absent" \/ clusterPod.deleting
                  THEN [Return("ok") EXCEPT !.missing = TRUE]
                  ELSE [life EXCEPT !.polled = TRUE]
    /\ UNCHANGED <<clusterPod, cpod, lifeCalls>>
    /\ UNCHANGED <<baseVars, fetcherVars, selection, runLoop, ptpDev>>

\* waitForPodToDelete, one turn of the loop: listPods; its error is returned; the
\* name not among the items returns nil, else time.Sleep and again
waitForPodToDelete_listPods ==
    /\ life.pc = "waitForPodToDelete"
    /\ \E api \in ApiOutcomes :
          life' = IF api = "err"
                  THEN [Return("failed to find pods") EXCEPT !.apiFailed = TRUE]
                  ELSE IF clusterPod.phase = "absent"
                  THEN [Return("ok") EXCEPT !.missing = TRUE]
                  ELSE [life EXCEPT !.polled = TRUE]
    /\ UNCHANGED <<clusterPod, cpod, lifeCalls>>
    /\ UNCHANGED <<baseVars, fetcherVars, selection, runLoop, ptpDev>>

\* waitForPodToDelete: time.Since(start) > deletionTimeout after a turn of the
\* loop: return errors.New("pod has not terminated within the timeout")
waitForPodToDelete_timeout ==
    /\ life.pc = "waitForPodToDelete"
    /\ life.polled
    /\ life' = Return("pod has not terminated within the timeout")
    /\ UNCHANGED <<clusterPod, cpod, lifeCalls>>
    /\ UNCHANGED <<baseVars, fetcherVars, selection, runLoop, ptpDev>>

\* the call returns to its caller
PodAndWait_return ==
    /\ life.pc = "return"
    /\ life' = [NoLife EXCEPT !.after = IF life.result = "ok" THEN life.op ELSE ""]
    /\ UNCHANGED <<clusterPod, cpod, lifeCalls>>
    /\ UNCHANGED <<baseVars, fetcherVars, selection, runLoop, ptpDev>>

(***************************************************************************)
(* The PTP collector whose Start and CleanUp look a key up in the data map *)
(* (ptpDev): its control path and its Poll, one call after the other.      *)
(***************************************************************************)
\* var collectables = [3]string{DeivceInfo, DLLInfo, GNNSSTTY}
collectables == <<"device-info", "dll-info", "gnss-tty">>

\* getErrorIfNotCollectable(key): an error unless key is a key of the data map
getErrorIfNotCollectable(key) == key \notin ptpDev.data

\* Start(key): "all" marks every data type of DataTypes as running; any other
\* key is looked up in the data map first
PTPDev_Start(key) ==
    /\ ptpDev' =
          IF key = All
          THEN [ptpDev EXCEPT !.running = @ \cup Range(collectables),
                              !.ret = [op |-> "Start", key |-> key, err |-> {}]]
          ELSE IF getErrorIfNotCollectable(key)
          THEN [ptpDev EXCEPT !.ret = [op |-> "Start", key |-> key, err |-> {key}]]
          ELSE [ptpDev EXCEPT !.running = @ \cup {key},
                              !.ret = [op |-> "Start", key |-> key, err |-> {}]]
    /\ UNCHANGED <<baseVars, fetcherVars, selection, lifecycleVars, runLoop>>

\* Poll(): for every running key fetchLine stores what it read in the data map
\* (the GNSS lines are read with the device-info entry, which the constructor
\* put there), and the callback is called with the line; the errors of the
\* callback are returned
PTPDev_Poll ==
    /\ \E failed \in SUBSET ptpDev.running :
          ptpDev' = [ptpDev EXCEPT !.data = @ \cup ptpDev.running,
                                   !.ret = [op |-> "Poll", key |-> "", err |-> failed]]
    /\ UNCHANGED <<baseVars, fetcherVars, selection, lifecycleVars, runLoop>>

\* CleanUp(key): "all" replaces the running map by an empty one; any other key is
\* looked up in the data map first, then deleted from the running map
PTPDev_CleanUp(key) ==
    /\ ptpDev' =
          IF key = All
          THEN [ptpDev EXCEPT !.running = {},
                              !.ret = [op |-> "CleanUp", key |-> key, err |-> {}]]
          ELSE IF getErrorIfNotCollectable(key)
          THEN [ptpDev EXCEPT !.ret = [op |-> "CleanUp", key |-> key, err |-> {key}]]
          ELSE [ptpDev EXCEPT !.running = @ \ {key},
                              !.ret = [op |-> "CleanUp", key |-> key, err |-> {}]]
    /\ UNCHANGED <<baseVars, fetcherVars, selection, lifecycleVars, runLoop>>

(***************************************************************************)
(* The run loop: it dispatches the polls of the PMC collector until the    *)
(* duration is over, then shuts down: the timers are stopped, the polls in *)
(* flight are waited for, the results channel is closed, the persistent    *)
(* sessions are closed.  The aggregation task drains the results channel,  *)
(* what the channel still holds when it is closed included.                *)
(***************************************************************************)
\* the duration is over: the timers are stopped, no poll is dispatched any more
RunLoop_stopTimers ==
    /\ runLoop = "ticking"
    /\ runLoop' = "wait"
    /\ UNCHANGED <<baseVars, fetcherVars, selection, lifecycleVars, ptpDev>>

\* wg.Wait() returns: the counter of the polls in flight is zero
RunLoop_wait ==
    /\ runLoop = "wait"
    /\ pmcWg = 0
    /\ runLoop' = "close"
    /\ UNCHANGED <<baseVars, fetcherVars, selection, lifecycleVars, ptpDev>>

\* close(resultsChan)
RunLoop_closeResults ==
    /\ runLoop = "close"
    /\ runLoop' = "sessions"
    /\ UNCHANGED <<baseVars, fetcherVars, selection, lifecycleVars, ptpDev>>

\* the persistent sessions are closed
RunLoop_closeSessions ==
    /\ runLoop = "sessions"
    /\ runLoop' = "end"
    /\ UNCHANGED <<baseVars, fetcherVars, selection, lifecycleVars, ptpDev>>

Init ==
    /\ InitCollector /\ InitShell /\ InitExec
    /\ InitFetcher /\ InitLifecycle
    \* package runner after init(), no selection made
    /\ selection = [request |-> <<>>, result |-> <<>>, returned |-> FALSE]
    \* the run loop before shutdown: its timers tick
    /\ runLoop = "ticking"
    \* NewPTPCollector returned a collector: data holds what GetPTPDeviceInfo and
    \* GetDevDPLLInfo returned, running is empty
    /\ ptpDev = [data |-> {"device-info", "dll-info"}, running |-> {},
                 ret |-> [op |-> "", key |-> "", err |-> {}]]

SpecCollector == Init /\ [][NextCollector]_vars

SpecGPS == Init /\ [][NextGPS]_vars

\* Both collectors under one control path: the keys of the PTP collector are
\* started and cleaned up beside the GPS collector and its polls.
NextControl ==
    \/ \E key \in KeyInputs : PTPCollector_Start(key)
    \/ \E key \in KeyInputs : PTPCollector_CleanUp(key)
    \/ NextGPS

SpecControl == Init /\ [][NextControl]_vars

\* The PTP collector with a cadence shorter than its fetch latency: a tick
\* dispatches a poll while the poll of the tick before it has not returned, so
\* that the polls of two ticks overlap.
NextOverlap ==
    \/ PTPCollector_Start(All)
    \/ \E p \in PollIds :
          /\ Cardinality({q \in PollIds : polls[q].pc \notin {"idle", "end"}}) < 2
          /\ PTPCollector_Poll(p)
    \/ \E p \in PollIds : PTPCollector_Poll_range(p)
    \/ \E p \in PollIds : PTPCollector_fetchLine_lock(p)
    \/ \E p \in PollIds : PTPCollector_Poll_fetchLine(p)
    \/ \E p \in PollIds : PTPCollector_Poll_call(p)
    \/ \E p \in PollIds : PTPCollector_Poll_count(p)
    \/ \E p \in PollIds : PTPCollector_Poll_send(p)
    \/ \E p \in PollIds : PTPCollector_Poll_done(p)
    \/ Aggregate

SpecOverlap == Init /\ [][NextOverlap]_vars

NextShell ==
    \* ExecCommand(cmd) and ExecCommandStdIn(_, buffIn) call c.execCommand
    \/ \E r \in CmdIds, via \in {"ExecCommand", "ExecCommandStdIn"} :
          ReusedConnectionContext_execCommand(r, via)
    \/ \E r \in CmdIds : ReusedConnectionContext_execCommand_return(r)
    \/ serializer_quit
    \/ serializer_send
    \/ serializer_expect
    \/ serializer_deliver
    \/ serializer_return
    \/ pump_return
    \/ ReusedConnectionContext_CloseShell
    \/ ReusedConnectionContext_CloseShell_return

SpecShell == Init /\ [][NextShell]_vars

\* the serializer is one goroutine: it takes the step it is at, when it can
serializer_step ==
    \/ serializer_quit
    \/ serializer_send
    \/ serializer_expect
    \/ serializer_deliver
    \/ serializer_return

FairSpecShell == SpecShell /\ WF_vars(serializer_step)

NextExec ==
    \/ NewContainerContext_call
    \/ NewContainerCreationExecContext_call
    \/ Cluster_podDeleted
    \/ Cluster_podCreated
    \* ExecCommand(command) and ExecCommandStdIn(command, buffIn) call c.execCommand
    \/ \E via \in {"ExecCommand", "ExecCommandStdIn"} : ContainerExecContext_execCommand(via)
    \/ execCommand_NewSPDYExecutor
    \/ execCommand_StreamWithContext
    \/ execCommand_refresh
    \/ execCommand_return

SpecExec == Init /\ [][NextExec]_vars

\* The construction of a persistent session while the pods of the namespace
\* come and go.
NextReused ==
    \/ NewReusedConnectionContext_call
    \/ Cluster_podDeleted
    \/ Cluster_podCreated

SpecReused == Init /\ [][NextReused]_vars

NextFetcher ==
    \/ \E w \in WorkerIds, key \in FetcherKeys : GetPTPDeviceInfo(w, key)
    \/ \E w \in WorkerIds, key \in FetcherKeys : ReadGNSSDev(w, key)
    \/ \E w \in WorkerIds, key \in FetcherKeys : GetDevDPLLInfo(w, key)
    \/ \E w \in WorkerIds : GetInfo_lock(w)
    \/ \E w \in WorkerIds : GetInfo_create(w)
    \/ \E w \in WorkerIds : GetInfo_AddCommand(w)
    \/ \E w \in WorkerIds : GetInfo_Fetch(w)
    \/ \E w \in WorkerIds : GetInfo_return(w)

SpecFetcher == Init /\ [][NextFetcher]_vars

\* The calls made on the collector with the data map: the keys of DataTypes,
\* "all", and a key of no data type.
NextPTPDev ==
    \/ \E key \in Range(collectables) \cup {All, "foo"} : PTPDev_Start(key)
    \/ PTPDev_Poll
    \/ \E key \in Range(collectables) \cup {All, "foo"} : PTPDev_CleanUp(key)

SpecPTPDev == Init /\ [][NextPTPDev]_vars

NextSelector == \E selectedCollectors \in Requests : GetCollectorsToRun_call(selectedCollectors)

SpecSelector == Init /\ [][NextSelector]_vars

NextLifecycle ==
    \/ Cluster_podRunning
    \/ Cluster_podGone
    \/ CreatePodAndWait
    \/ CreatePodAndWait_isPodRunning
    \/ CreatePodAndWait_createPod
    \/ waitForPodToStart_isPodRunning
    \/ waitForPodToStart_timeout
    \/ DeletePodAndWait
    \/ DeletePodAndWait_deletePod
    \/ waitForPodToDelete_listPods
    \/ waitForPodToDelete_timeout
    \/ PodAndWait_return

SpecLifecycle == Init /\ [][NextLifecycle]_vars

(***************************************************************************)
(* Fairness: a dispatched Poll call is a goroutine, and the scheduler runs *)
(* every goroutine that can run; the aggregation task keeps draining the   *)
(* results channel.  The control path (Start, CleanUp) and the ticks are   *)
(* under no obligation.                                                    *)
(***************************************************************************)
\* the step a dispatched Poll call is at
Poll_step(p) ==
    \/ PTPCollector_Poll_range(p)
    \/ PTPCollector_fetchLine_lock(p)
    \/ PTPCollector_Poll_fetchLine(p)
    \/ PTPCollector_Poll_call(p)
    \/ PTPCollector_Poll_count(p)
    \/ PTPCollector_Poll_send(p)
    \/ PTPCollector_Poll_done(p)
    \/ PMCCollector_Poll(p)
    \/ PMCCollector_Poll_send(p)
    \/ PMCCollector_Poll_done(p)

FairSpecPolls ==
    /\ Init /\ [][NextPolls]_vars
    /\ \A p \in PollIds : WF_vars(Poll_step(p))
    /\ WF_vars(Aggregate)

\* The run loop with the PMC collector: a tick dispatches a poll whether or not
\* the poll before it has returned.
NextRun ==
    \/ \E p \in PollIds : runLoop = "ticking" /\ PMCCollector_dispatch(p)
    \/ \E p \in PollIds : PMCCollector_Poll(p)
    \/ \E p \in PollIds : PMCCollector_Poll_send(p)
    \/ \E p \in PollIds : PMCCollector_Poll_done(p)
    \/ Aggregate
    \/ RunLoop_stopTimers
    \/ RunLoop_wait
    \/ RunLoop_closeResults
    \/ RunLoop_closeSessions

\* the polls, the aggregation task and the run loop are scheduled
FairSpecRun ==
    /\ Init /\ [][NextRun]_vars
    /\ \A p \in PollIds : WF_vars(Poll_step(p))
    /\ WF_vars(Aggregate)
    /\ WF_vars(RunLoop_stopTimers \/ RunLoop_wait \/ RunLoop_closeResults
                  \/ RunLoop_closeSessions)

(***************************************************************************)
(* The claims about the collectors.                                        *)
(***************************************************************************)
\* the keys that failed in poll p's cycle
Failed(p) == {k \in DOMAIN polls[p].out : polls[p].out[k] = "fail"}

\* C1: every Poll call sends exactly one PollResult on the results channel, on
\* every path, and the length of its Errors equals the number of keys that were
\* running in that cycle and failed.
C1_OneResultPerPollWithFailedRunningKeys ==
    \A p \in PollIds :
       /\ polls[p].pc \in {"done", "end"} => polls[p].sent = 1
       /\ polls[p].pc \notin {"done", "end"} => polls[p].sent = 0
       /\ polls[p].pc = "done" =>
             Len(polls[p].errs) = Cardinality(Failed(p) \cap polls[p].wasRunning)

\* C2: after any sequence of Start and CleanUp calls the running keys are the
\* replayed transitions over the recognized keys, and a call with a key that is
\* neither a collectable key nor "all" returns an error (the replay leaves the
\* running set as it was for such a key).
C2_RunningEqualsReplay ==
    /\ RunningKeys(ptpRunning) = ptpReplay
    /\ ~ret.known => ret.err

\* C2 witness: the last call had an unrecognized key, returned an error and left
\* a running set that an earlier Start built.
C2_Witness ==
    /\ ~ret.known
    /\ ret.err
    /\ RunningKeys(ptpRunning) = {DPLLInfo}

\* C3: in every reachable state, after any interleaving of Start, CleanUp and Poll,
\* the running keys are among the collectable keys (DataTypes).
C3_RunningSubsetOfDataTypes ==
    /\ DOMAIN ptpRunning \subseteq Range(ptpCollectables)
    /\ RunningKeys(ptpRunning) \subseteq Range(ptpCollectables)

\* C3 witness: a poll is at its sink call, both keys were started since it began
\* its range, and a call with an unrecognized key has just returned its error.
C3_Witness ==
    \E p \in PollIds :
       /\ polls[p].coll = PTPCollectorName
       /\ polls[p].pc = "call"
       /\ polls[p].through # RunningKeys(ptpRunning)
       /\ RunningKeys(ptpRunning) = Range(ptpCollectables)
       /\ ~ret.known

\* C4: a Poll fetches and passes to the sink only keys that are running: a key
\* that was never started, or was cleaned up, is not fetched and not passed to the
\* sink, and a running key whose fetch and serialization succeed is passed to the
\* sink in that poll.
C4_PollOnlyRunningKeys ==
    \A p \in PollIds :
       /\ polls[p].fetched \subseteq polls[p].wasRunning
       /\ polls[p].called \subseteq polls[p].wasRunning
       /\ polls[p].pc = "done" =>
             \A k \in polls[p].wasRunning : k \in polls[p].called \/ k \in Failed(p)

\* C5 (within one poll): when a PTP poll has ended its range, every key that was
\* running from the poll's begin on was fetched, whatever happened to the other
\* keys; it was passed to the sink unless its own fetch failed, and each failure
\* is in the outcome.
C5_SiblingKeysStillPolled ==
    \A p \in PollIds :
       (polls[p].coll = PTPCollectorName /\ polls[p].pc \in {"send", "done"}) =>
          \A k \in polls[p].through :
             /\ k \in polls[p].fetched
             /\ k \in polls[p].called \/ k \in Failed(p)
             /\ k \in Failed(p) => k \in Range(polls[p].errs)

\* C5: a failure on one key does not keep the other running keys from being
\* fetched and delivered in the same cycle, and in the end every dispatched poll
\* of either collector has emitted its outcome, whatever the other collector's
\* poll met.
C5_FailuresAreIsolated ==
    /\ []C5_SiblingKeysStillPolled
    /\ <>[](\A p \in PollIds : polls[p].pc # "idle" => polls[p].sent = 1)

\* C5 witness: a PTP poll whose first key failed has fetched and delivered the
\* other key, and the PMC poll beside it has emitted its outcome.
C5_Witness ==
    \E p, q \in PollIds :
       /\ polls[p].coll = PTPCollectorName
       /\ polls[p].pc = "done"
       /\ polls[p].through = Range(ptpCollectables)
       /\ polls[p].errs = <<DeviceInfo>>
       /\ DeviceInfo \notin polls[p].called
       /\ DPLLInfo \in polls[p].called
       /\ polls[q].coll = PMCCollectorName
       /\ polls[q].sent = 1

(***************************************************************************)
(* The claims about the persistent session.                                *)
(***************************************************************************)
\* the commands written to the shell, in order
WrittenCmds ==
    LET w == SelectSeq(written, LAMBDA l : l.kind = "cmd")
    IN [i \in 1..Len(w) |-> w[i].cmd]

\* the commands whose result the serializer has sent
Answered == {delivered[i].cmd : i \in 1..Len(delivered)}

\* the commands written to the shell whose result was not sent yet
InFlight == {r \in Range(WrittenCmds) : r \notin Answered}

\* C6 (in every state): the commands written are the first of those submitted, in
\* submission order; a result is sent once, on the channel of its own request, and
\* only for a command already written; a caller gets the result of its own command;
\* and when the serializer is back at its select with nothing queued, there are as
\* many results as commands submitted.
C6_InOrderOneResultEach ==
    /\ Len(WrittenCmds) <= Len(submitted)
    /\ WrittenCmds = SubSeq(submitted, 1, Len(WrittenCmds))
    /\ \A i \in 1..Len(delivered) :
          /\ delivered[i].chan = delivered[i].cmd
          /\ delivered[i].cmd \in Range(WrittenCmds)
          /\ \A j \in 1..Len(delivered) : delivered[j].cmd = delivered[i].cmd => i = j
    /\ \A r \in CmdIds :
          /\ callers[r].pc = "returned" => r \in Answered
          /\ \A i \in 1..Len(resChan[r]) : resChan[r][i].cmd = r
    /\ (serializer.pc = "select" /\ commandChannel = <<>>) =>
          /\ Len(delivered) = Len(submitted)
          /\ [i \in 1..Len(delivered) |-> delivered[i].cmd] = submitted

C7_AtMostOneInFlight ==
    /\ Cardinality(InFlight) <= 1
    /\ InFlight # {} =>
          /\ serializer.pc \in {"expect", "deliver"}
          /\ InFlight = {serializer.cmd}

\* C7 witness: a command is awaiting its prompt while two more callers, one through
\* each entry point, have their commands queued behind it.
C7_Witness ==
    /\ serializer.pc = "expect"
    /\ Len(commandChannel) >= 2
    /\ \E r, q \in CmdIds :
          /\ callers[r].pc = "wait" /\ callers[r].via = "ExecCommand"
          /\ callers[q].pc = "wait" /\ callers[q].via = "ExecCommandStdIn"
          /\ r # serializer.cmd
          /\ q # serializer.cmd

(***************************************************************************)
(* The claims about the per-call session.                                  *)
(***************************************************************************)
\* C8: a per-call exec that receives not-found re-resolves the pod name but makes no
\* second attempt: a call streams at most once, to the name it began with; the
\* error it returns is the not-found of that attempt, wrapped; and the next call
\* is the one that uses the name left by the refresh.
C8_NoRetryAfterNotFound ==
    /\ Len(call.streams) <= 1
    /\ \A i \in 1..Len(call.streams) : call.streams[i].target = call.target
    /\ call.pc = "refresh" => call.err = "notFound"
    /\ prev.done =>
          /\ Len(prev.streams) <= 1
          /\ \A i \in 1..Len(prev.streams) :
                /\ prev.streams[i].target = prev.target
                /\ prev.streams[i].out = "notFound" =>
                      /\ prev.err = "notFound"
                      /\ prev.wrap = "error running remote command"
          /\ prev.nameAfter # prev.target =>
                /\ prev.err = "notFound"
                /\ HasPrefix(prev.nameAfter, ctx.podNamePrefix)
    /\ (prev.done /\ call.pc # "idle") => call.target = prev.nameAfter

\* C8 witness: a call got not-found from the pod it began with and returned with
\* the name refreshed to another pod; the next call has streamed to that pod.
C8_Witness ==
    /\ prev.done
    /\ Len(prev.streams) = 1
    /\ prev.streams[1].target = prev.target
    /\ prev.streams[1].out = "notFound"
    /\ prev.nameAfter # prev.target
    /\ Len(call.streams) = 1
    /\ call.streams[1].target = prev.nameAfter
    /\ call.streams[1].out = "ok"

C10_ResolvedNameCarriesPrefix ==
    ctx.built => HasPrefix(ctx.podName, ctx.podNamePrefix)

\* C10 witness: after a not-found whose refresh found no pod, a second not-found
\* was followed by a refresh that resolved the prefix to another pod.
C10_Witness ==
    /\ ctx.built
    /\ prev.done
    /\ prev.err = "notFound"
    /\ prev.nameAfter = prev.target
    /\ call.pc = "return"
    /\ call.err = "notFound"
    /\ ctx.podName # call.target
    /\ ctx.podName # ctx.podNamePrefix

(***************************************************************************)
(* The fetchers                                                            *)
(***************************************************************************)
\* the commands of fetcher f with the given cached flag
CommandsOf(f, cached) == {f.cmds[i].label : i \in {j \in 1..Len(f.cmds) : f.cmds[j].cached = cached}}

C12_AtMostOneFetcherPerKey ==
    \A kind \in FetcherKinds, key \in FetcherKeys :
        Cardinality({i \in 1..Len(fetchers) :
                        fetchers[i].kind = kind /\ fetchers[i].key = key}) <= 1

(***************************************************************************)
(* The selection of the collectors                                         *)
(***************************************************************************)
\* two names are the same up to letter case
SameUpToCase(a, b) == Len(a) = Len(b) /\ \A i \in 1..Len(a) : Fold(a[i]) = Fold(b[i])

\* the request asks for "all" in some letter case
RequestsAll(req) == \E i \in 1..Len(req) : SameUpToCase(req[i], runnerAll)

\* the place where a name is first seen in a request: the first place holding the
\* name or "all"; past the end when there is none
FirstSeen(name, req) ==
    LET seen == {i \in 1..Len(req) : req[i] = name \/ SameUpToCase(req[i], runnerAll)}
    IN IF seen = {} THEN Len(req) + 1 ELSE CHOOSE i \in seen : \A j \in seen : i <= j

\* C13: for every selection request, the list returned by GetCollectorsToRun
\* contains every Required collector name, and the Required names come before
\* any Optional name.
C13_RequiredFirst ==
    selection.returned =>
        /\ Range(RequiredCollectorNames) \subseteq Range(selection.result)
        /\ \A i, j \in 1..Len(selection.result) :
              /\ selection.result[i] \in Range(RequiredCollectorNames)
              /\ selection.result[j] \in Range(OptionalCollectorNames)
              => i < j

\* a request naming an optional collector before the required one
C13_Witness ==
    /\ selection.returned
    /\ selection.request = <<DPLLName, DevInfoName>>
    /\ selection.result = <<DevInfoName, DPLLName>>

\* C14: a selection request containing "all" (in any letter case) yields the
\* Required names followed by every Optional name, each once; the request
\* ["all"] yields exactly [DevInfo, DPLL, GPS].
C14_AllExpandsToEveryOptional ==
    /\ selection.returned /\ RequestsAll(selection.request) =>
          /\ Len(selection.result) = Len(RequiredCollectorNames) + Len(OptionalCollectorNames)
          /\ SubSeq(selection.result, 1, Len(RequiredCollectorNames)) = RequiredCollectorNames
          /\ Range(OptionalCollectorNames) \subseteq Range(selection.result)
    /\ selection.returned /\ selection.request = <<runnerAll>> =>
          selection.result = <<DevInfoName, DPLLName, GPSName>>

\* a request holding "ALL" after a name of its own
C14_Witness ==
    /\ selection.returned
    /\ selection.request = <<GPSName, <<"A", "L", "L">>>>
    /\ selection.result = <<DevInfoName, GPSName, DPLLName>>

\* C15: Optional collector names in a selection request are matched
\* case-insensitively: a requested name that equals a registered Optional name up
\* to letter case selects that collector.
C15_OptionalMatchedUpToCase ==
    selection.returned =>
        \A i \in 1..Len(selection.request), o \in Range(OptionalCollectorNames) :
            SameUpToCase(selection.request[i], o) => o \in Range(selection.result)

\* C16: for every selection request, the list returned by GetCollectorsToRun
\* contains no name twice, and the Optional names appear in the order in which
\* they were first seen in the request.
C16_NoDuplicatesFirstSeenOrder ==
    selection.returned =>
        /\ \A i, j \in 1..Len(selection.result) :
              selection.result[i] = selection.result[j] => i = j
        /\ \A i, j \in 1..Len(selection.result) :
              /\ i < j
              /\ selection.result[i] \in Range(OptionalCollectorNames)
              /\ selection.result[j] \in Range(OptionalCollectorNames)
              => FirstSeen(selection.result[i], selection.request)
                   <= FirstSeen(selection.result[j], selection.request)

\* a request repeating a name and naming the optional collectors against the
\* order of their registration
C16_Witness ==
    /\ selection.returned
    /\ selection.request = <<GPSName, DPLLName, GPSName>>
    /\ selection.result = <<DevInfoName, GPSName, DPLLName>>

\* C17: an unrecognized name in a selection request is dropped without failing
\* the selection: every returned name is a registered Required or Optional name,
\* and the registered names of the same request are still selected.
C17_UnknownNamesDropped ==
    selection.returned =>
        /\ Range(selection.result)
              \subseteq Range(RequiredCollectorNames) \cup Range(OptionalCollectorNames)
        /\ \A i \in 1..Len(selection.request) :
              selection.request[i] \in Range(OptionalCollectorNames)
              => selection.request[i] \in Range(selection.result)

\* a request with an unknown name before a registered one
C17_Witness ==
    /\ selection.returned
    /\ selection.request = <<<<"f", "o", "o">>, DPLLName>>
    /\ selection.result = <<DevInfoName, DPLLName>>

(***************************************************************************)
(* The pod's lifecycle                                                     *)
(***************************************************************************)
\* the call in progress has its result and has not returned it yet
Returning(op) == life.pc = "return" /\ life.op = op

\* C18: CreatePodAndWait returns a timed-out error when the pod does not reach
\* phase Running within the start timeout, and on that path it does not delete
\* the pod: no delete request is sent, the pod stays in the cluster, and c.pod
\* still holds the pending pod.
C18_TimedOutLeavesPodPending ==
    Returning("create") /\ life.result = "timed out waiting for pod to start" =>
        /\ life.deletes = 0
        /\ clusterPod.phase # "absent"
        /\ ~clusterPod.deleting
        /\ cpod = PodObject("Pending")

\* a call that created the pod and timed out while the pod was still pending
C18_Witness ==
    /\ Returning("create")
    /\ life.result = "timed out waiting for pod to start"
    /\ life.creates = 1
    /\ clusterPod = [phase |-> "Pending", deleting |-> FALSE]

\* C19: CreatePodAndWait is a no-op when the context already holds a pod object
\* whose pod is Running: no create request is sent and the call returns success
\* (unless the pod is gone by then); otherwise exactly one create request is sent
\* per call.  Calls in which a request failed for another reason than the state
\* of the pod are left out.
C19_NoOpWhenRunningElseOneCreate ==
    Returning("create") /\ ~life.apiFailed =>
        IF life.wasRunning
        THEN life.creates = 0 /\ (life.result = "ok" \/ clusterPod.phase = "absent")
        ELSE life.creates = 1

\* C20: DeletePodAndWait tolerates the pod already being absent: when the delete
\* request reports not-found, or the name is missing from the listing, the call
\* returns success.
C20_AbsentPodTolerated ==
    Returning("delete") /\ (life.notFound \/ life.missing) => life.result = "ok"

\* C21: DeletePodAndWait returns success only in a state where the pod's name is
\* absent from the listing; a timed-out error is returned only after a listing
\* that still held the name; and a turn of the wait loop whose listing fails ends
\* the call with that error at once.
C21_DeleteSucceedsOnlyWhenAbsent ==
    /\ [](Returning("delete") /\ life.result = "ok" => clusterPod.phase = "absent")
    /\ [](Returning("delete") /\ life.result = "pod has not terminated within the timeout"
            => life.deletes = 1 /\ life.polled)
    /\ [][life.pc = "waitForPodToDelete" /\ life'.apiFailed
            => life'.pc = "return" /\ life'.result = "failed to find pods"]_vars

\* a call that found the name listed, polled again and returned once it was gone
C21_Witness ==
    /\ Returning("delete")
    /\ life.result = "ok"
    /\ life.polled
    /\ clusterPod.phase = "absent"

(***************************************************************************)
(* The run loop's shutdown                                                 *)
(***************************************************************************)
\* the polls the run loop dispatched
Dispatched == {p \in PollIds : polls[p].coll = PMCCollectorName}

\* the results channel is closed
ResultsClosed == runLoop \in {"sessions", "end"}

QuitWritten == \E i \in 1..Len(written) : written[i] = QuitLine

\* C23 (in every state): the session-exit instruction is sent only after the
\* caller signalled close, and CloseShell has returned only when the instruction
\* was sent and both the stream pump and the serializer have finished.
C23_ReturnedOnlyAfterBothFinished ==
    /\ QuitWritten => closer # "idle"
    /\ closer = "returned" =>
          /\ QuitWritten
          /\ pump = "ended"
          /\ serializer.pc = "exited"
          /\ shellWg = 0

\* C23: CloseShell is cooperative: once the caller has signalled close the
\* serializer sends the session-exit instruction to the shell, and CloseShell
\* returns only after both the stream pump and the serializer have finished.
C23_CloseIsCooperative ==
    /\ []C23_ReturnedOnlyAfterBothFinished
    /\ <>[](closer # "idle" => QuitWritten)

\* CloseShell has returned, while a caller's command was still queued
C23_Witness ==
    /\ closer = "returned"
    /\ QuitWritten
    /\ pump = "ended"
    /\ serializer.pc = "exited"
    /\ commandChannel # <<>>


\* C24: a call whose executor setup and whose stream both succeeded returns no
\* error, after one stream, with exactly the stdout and the stderr the remote
\* side wrote to that stream
C24_SuccessReturnsWhatWasWritten ==
    (/\ prev.done
     /\ prev.setup = "ok"
     /\ prev.streams # <<>>
     /\ \A i \in 1..Len(prev.streams) : prev.streams[i].out = "ok") =>
        /\ prev.err = ""
        /\ Len(prev.streams) = 1
        /\ prev.stdout = prev.streams[1].stdout
        /\ prev.stderr = prev.streams[1].stderr

\* a successful call returned the two different outputs the remote side wrote
C24_Witness ==
    /\ prev.done
    /\ prev.setup = "ok"
    /\ prev.err = ""
    /\ prev.stdout = "out"
    /\ prev.stderr = "err"

\* C25: a call returns an error exactly when the executor setup failed or the
\* stream failed; after a failed setup no stream was attempted, the resolved
\* pod name is the one the call began with, and both outputs are empty
C25_ErrorIffSetupOrStreamFailed ==
    prev.done =>
        /\ (prev.err # "") <=>
              (\/ prev.setup = "setupErr"
               \/ \E i \in 1..Len(prev.streams) : prev.streams[i].out # "ok")
        /\ prev.setup = "setupErr" =>
              /\ prev.streams = <<>>
              /\ prev.nameAfter = prev.target
              /\ prev.stdout = ""
              /\ prev.stderr = ""

\* a call failed in the setup while a refresh would have changed the name
C25_Witness ==
    /\ prev.done
    /\ prev.setup = "setupErr"
    /\ prev.err # ""
    /\ ctx.podName = prev.target
    /\ refresh(ctx, podList).ctx.podName # ctx.podName

\* C26: NewContainerContext returns an error when no listed pod carries the
\* prefix, and otherwise no error and a context of the given namespace and
\* container whose pod name is that of a listed pod carrying the prefix
C26_ContextOfAListedPod ==
    made.done =>
        LET carrying == {i \in 1..Len(made.listing) :
                            HasPrefix(made.listing[i], made.podNamePrefix)}
        IN IF carrying = {}
           THEN made.err # ""
           ELSE /\ made.err = ""
                /\ made.ctx.namespace = Namespace
                /\ made.ctx.containerName = ContainerName
                /\ \E i \in carrying : made.ctx.podName = made.listing[i]

\* one construction failed on a listing without the prefix
C26_WitnessError ==
    /\ made.done
    /\ made.err # ""
    /\ made.listing # <<>>

\* a construction resolved a prefix that is shorter than the name it found
C26_Witness ==
    /\ made.done
    /\ made.err = ""
    /\ Len(made.listing) = 2
    /\ made.ctx.podName # made.podNamePrefix
    /\ made.ctx.podName = made.listing[2]


\* C27: whatever the running set was, a Start("all") leaves every collectable key
\* of the collector running and a CleanUp("all") leaves every one of them stopped,
\* and both return no error
C27_AllCoversEveryCollectable ==
    [][/\ PTPCollector_Start(All) =>
             /\ Range(ptpCollectables) \subseteq RunningKeys(ptpRunning')
             /\ ~ret'.err
       /\ PTPCollector_CleanUp(All) =>
             /\ Range(ptpCollectables) \cap RunningKeys(ptpRunning') = {}
             /\ ~ret'.err
       /\ GPSCollector_Start(All) => gpsRunning' /\ ~ret'.err
       /\ GPSCollector_CleanUp(All) => ~gpsRunning' /\ ~ret'.err]_vars

\* every key of both collectors is running after calls that all returned no error
C27_Witness ==
    /\ RunningKeys(ptpRunning) = Range(ptpCollectables)
    /\ ptpReplay = Range(ptpCollectables)
    /\ gpsRunning
    /\ ~ret.err


\* C28: once its polls have returned, the poll count of the GPS collector is the
\* number of its completed Poll calls, whether or not a poll failed
C28_CountIsCompletedPolls ==
    Idle(GPSCollectorName) =>
        gpsCount = Cardinality({p \in PollIds : /\ polls[p].coll = GPSCollectorName
                                                /\ polls[p].pc = "end"})


\* C29: the cached data is written only by a poll that holds the collector's
\* mutex, and while a poll is part-way through its range over the running map no
\* Start or CleanUp writes the map
C29_StateAccessedUnderMutex ==
    /\ [](\A p \in PollIds :
             (polls[p].coll = PTPCollectorName /\ polls[p].pc = "fetch") => ptpLock = p)
    /\ [][(\E p \in PollIds : RangingLive(p) /\ polls[p].visited # {}) =>
             ptpRunning' = ptpRunning]_vars


\* C31: for one collector and one key the sink receives the payloads of
\* successive polls in chronological order: no poll has passed its payload of a
\* key to the sink while a poll dispatched before it, which also fetched that key
\* before it, still holds its own
C31_SinkOrderChronological ==
    \A p \in PollIds : \A q \in polls[p].ahead :
        ~ /\ q < p
          /\ polls[p].coll = PTPCollectorName
          /\ polls[p].pc = "range"
          /\ polls[p].cur \in polls[p].called
          /\ polls[q].coll = PTPCollectorName
          /\ polls[q].pc = "call"
          /\ polls[q].cur = polls[p].cur

\* C39: at most one fetchLine of a collector is in progress at any time, and
\* it belongs to the poll that holds the lock
C39_OneFetchLineAtATime ==
    \A p, q \in PollIds :
        (/\ polls[p].coll = PTPCollectorName /\ polls[p].pc = "fetch"
         /\ polls[q].coll = PTPCollectorName /\ polls[q].pc = "fetch") =>
            p = q /\ ptpLock = p

\* one poll is inside fetchLine while an overlapping poll waits for the lock
\* with the same key at hand
C39_Witness ==
    \E p, q \in PollIds :
        /\ p # q
        /\ polls[p].coll = PTPCollectorName /\ polls[p].pc = "fetch"
        /\ polls[q].coll = PTPCollectorName /\ polls[q].pc = "lock"
        /\ polls[q].cur = polls[p].cur


\* C32: a poll of the GPS collector whose fetch fails (the post-processing hook
\* not matching included) goes straight to its outcome with the error and without
\* a call of the sink, and the outcome of a poll carries an error only when that
\* poll's own key failed: a later poll that fetches and delivers has none
C32_ParseFailureStaysInItsPoll ==
    /\ [](\A p \in PollIds :
             (polls[p].coll = GPSCollectorName /\ polls[p].pc \in {"send", "done"}) =>
                /\ (polls[p].errs # <<>>) <=> (GPSNavKey \in Failed(p))
                /\ GPSNavKey \in Failed(p) \/ polls[p].called = {GPSNavKey})
    /\ [][\A p \in PollIds :
             (/\ polls[p].coll = GPSCollectorName
              /\ polls[p].pc = "fetch"
              /\ polls'[p].pc # "fetch"
              /\ GPSNavKey \in DOMAIN polls'[p].out) =>
                 /\ polls'[p].pc = "send"
                 /\ polls'[p].called = {}
                 /\ polls'[p].errs = <<GPSNavKey>>]_vars

\* the outcome of a first poll that failed is still in the channel, while the
\* poll after it has fetched, delivered to the sink and holds an empty outcome
C32_Witness ==
    /\ Len(resultsChan) = 1
    /\ resultsChan[1].CollectorName = GPSCollectorName
    /\ resultsChan[1].Errors = <<GPSNavKey>>
    /\ gpsCount = 1
    /\ \E p \in PollIds :
          /\ p # resultsChan[1].poll
          /\ polls[p].coll = GPSCollectorName
          /\ polls[p].pc = "send"
          /\ polls[p].called = {GPSNavKey}
          /\ polls[p].errs = <<>>


\* C33: the session-exit instruction is written only after the close signal and
\* only between commands: when it is written every command written before it has
\* had its result sent, and nothing is written after it
C33_QuitOnlyBetweenCommands ==
    QuitWritten =>
        /\ closer # "idle"
        /\ InFlight = {}
        /\ written[Len(written)] = QuitLine

\* the session-exit instruction was written after two commands were written and
\* answered, while a third is still queued
C33_Witness ==
    /\ QuitWritten
    /\ Len(WrittenCmds) = 2
    /\ Len(delivered) = 2
    /\ commandChannel # <<>>


\* C34: every execCommand call on the session eventually has its one result on
\* its result channel, a call whose command is queued or enqueued around the
\* close signal included: in the end no caller waits on an empty channel
C34_EveryCallGetsItsResult ==
    <>[](\A r \in CmdIds : callers[r].pc = "wait" => resChan[r] # <<>>)


\* C35: the session a constructor built from a prefix stores that prefix, so
\* that once its pod is gone and a pod carrying the prefix is listed, a refresh
\* resolves to a listed pod carrying the prefix
C35_KeepsConfiguredPrefix ==
    (made.done /\ made.err = "" /\ ctx.built) =>
        /\ ctx.podNamePrefix = made.podNamePrefix
        /\ (/\ ctx.podName \notin Range(podList)
            /\ \E i \in 1..Len(podList) : HasPrefix(podList[i], made.podNamePrefix)) =>
              LET r == refresh(ctx, podList)
              IN /\ r.err = ""
                 /\ r.ctx.podName \in Range(podList)
                 /\ HasPrefix(r.ctx.podName, made.podNamePrefix)


\* C36: a step of the per-call execCommand leaves the namespace, the container
\* name and the prefix of the context alone, and changes the pod name only in
\* the refresh that follows a not-found stream error, to the name that the
\* lookup of the prefix found
C36_OnlyRefreshRenames ==
    [][(call.pc # "idle" \/ call'.pc # "idle") =>
          /\ ctx'.namespace = ctx.namespace
          /\ ctx'.containerName = ctx.containerName
          /\ ctx'.podNamePrefix = ctx.podNamePrefix
          /\ ctx'.built = ctx.built
          /\ ctx'.podName # ctx.podName =>
                LET f == FindPodNameFromPrefix(podList, ctx.podNamePrefix)
                IN /\ call.pc = "refresh"
                   /\ call.streams # <<>>
                   /\ call.streams[Len(call.streams)].out = "notFound"
                   /\ f.err = ""
                   /\ ctx'.podName = f.name]_vars

\* a call came back from a pod that was gone, with the context renamed to a
\* listed pod
C36_Witness ==
    /\ prev.done
    /\ prev.err = "notFound"
    /\ prev.nameAfter # prev.target
    /\ prev.nameAfter = ctx.podName
    /\ HasPrefix(prev.nameAfter, ctx.podNamePrefix)


\* C37: a CreatePodAndWait that follows a DeletePodAndWait which returned nil
\* sends one create request and comes back from the wait for the new pod: it
\* does not fail on the pod object it still holds.  Calls in which a request
\* failed for another reason than the state of the pod are left out.
C37_CreateAfterDeleteStartsAfresh ==
    Returning("create") /\ life.after = "delete" /\ ~life.apiFailed =>
        /\ life.creates = 1
        /\ life.result \in {"ok", "timed out waiting for pod to start"}


\* C38: Fetch is only called on a Fetcher that holds all the commands of its
\* function, and a Fetcher of the map that lacks a command is in the hands of the
\* call that is adding its commands or is returning the error of an addition
C38_OnlyCompleteFetchersFetched ==
    /\ \A i \in 1..Len(fetchers) :
          \A l \in DOMAIN fetchers[i].held : fetchers[i].held[l] = fetchers[i].fetches
    /\ \A kind \in FetcherKinds :
          \A key \in DOMAIN fetcherMaps[kind] :
             LET i == fetcherMaps[kind][key]
             IN Len(fetchers[i].cmds) < Len(FetcherCommands(kind)) =>
                   \E w \in WorkerIds : workers[w].pc \in {"add", "return"} /\ workers[w].inst = i


\* C40: Start and CleanUp return no error for a key of DataTypes, in whatever
\* state they are called, the state after construction included
C40_EveryDataTypeCollectable ==
    (ptpDev.ret.op \in {"Start", "CleanUp"} /\ ptpDev.ret.key \in Range(collectables)) =>
        ptpDev.ret.err = {}

====
